---- MODULE Spec2Model ----
(***************************************************************************)
(* A model of volar's embedded-language mapping layer:                     *)
(*   - SourceMap / TeleportSourceMap (position and range translation),     *)
(*   - parseSourceFileDocuments (the snapshot-keyed registry of bundles),  *)
(*   - the call-hierarchy feature (doPrepare, getIncomingCalls,            *)
(*     getOutgoingCalls, transformCallHierarchyItem) and the auto-insert   *)
(*     result transform,                                                   *)
(*   - the pug hover (pug-language-service, services/hover),               *)
(*   - createProject's script versions and snapshots                       *)
(*     (onWorkspaceFilesChanged, getScriptVersion, getScriptSnapshot).     *)
(* SourceMapBase (matcing, matchOffset) and utils/dedupe are not part of   *)
(* the sources at hand; they are modelled from the written specification.  *)
(***************************************************************************)
EXTENDS Integers, Sequences, FiniteSets, TLC

\* ------------------------------------------------------------------ bounds
\* Largest offset a range of a table of several entries may use.
MaxOff == 2
\* Largest offset the range of a one-entry table may use; the documents' length.
MaxOffOne == 3
\* Largest offset a teleport range may use, and the most teleport entries.
MaxTeleOff == 2
MaxTeleports == 1
\* Most snapshot objects the embedding provider creates (edits).
MaxSnapshots == 2

\* the number of items the plugins prepare for one request
MaxItems == 3

\* the number of calls a plugin answers for one request
MaxCalls == 2
\* Largest number of entries of a mapping table.
MaxEntries == 2

VARIABLES
    mappings,   \* SourceMap.mappings: the mapping table (a sequence of entries)
    op,         \* name of the last operation called
    arg,        \* its arguments
    ret,        \* what it returned: a sequence (a generator's results in order,
                \* or zero/one element for a "first result or undefined" API)
    version,          \* parseSourceFileDocuments: let version
    snapshotsToMaps,  \* parseSourceFileDocuments: the WeakMap snapshot -> bundle
    mapper,           \* the DocumentRegistry: per source, nothing or <<its snapshot
                      \* and root file>>
    heap,             \* the snapshot objects created so far: heap[id] is the text
    used,             \* the bundle the last registry call resolved to (zero or one)
    built,            \* built[id]: the bundles getMaps has built for snapshot id
    asked,            \* the onIncomingCalls / onOutgoingCalls calls the last request
                      \* made of the plugins, in order
    project,          \* createProject: scripts, projectVersion, typeRootVersion, and
                      \* the workspace it reads (files, open documents, options)
    history           \* per file: the versions its script entries have had, and
                      \* whether a Changed / Created event reached the entry since
                      \* its snapshot was read

\* the state of parseSourceFileDocuments and of its DocumentRegistry
regVars == <<version, snapshotsToMaps, mapper, heap, used, built>>

\* the state of a project
projVars == <<project, history>>

vars == <<mappings, op, arg, ret, regVars, asked, projVars>>

\* the source files the embedding provider knows
Sources == {"/a.vue", "/b.vue"}

\* parseSourceFileDocuments(mapper) before any call; no source is open yet
InitRegistry ==
    /\ version = 0
    /\ snapshotsToMaps = <<>>
    /\ mapper = [src \in Sources |-> <<>>]
    /\ heap = <<>>
    /\ used = <<>>
    /\ built = <<>>

\* no project has been created
NoProject ==
    /\ project = <<>>
    /\ history = <<>>

\* ------------------------------------------------------- small utilities
Min(a, b) == IF a <= b THEN a ELSE b

Max(a, b) == IF a >= b THEN a ELSE b

\* the concatenation of a sequence of sequences (Array.prototype.flat)
RECURSIVE flat(_)
flat(ss) ==
    IF ss = <<>> THEN <<>> ELSE Head(ss) \o flat(Tail(ss))

\* ------------------------------------------------------------ documents
\* A TextDocument is its text length and the offsets at which its lines start.
\* The source document is "\n" followed by one line; the generated document is
\* a single line.
DocLen == Max(MaxOff, MaxOffOne)

sourceDocument == [uri |-> "file:///a.vue", len |-> DocLen, lineOffsets |-> <<0, 1>>]

mappedDocument == [uri |-> "file:///a.vue.ts", len |-> DocLen, lineOffsets |-> <<0>>]

\* TextDocument.positionAt: clamp the offset into the text, then find its line.
positionAt(doc, offset) ==
    LET o == Max(Min(offset, doc.len), 0)
        line == CHOOSE l \in 1..Len(doc.lineOffsets) :
                    /\ doc.lineOffsets[l] <= o
                    /\ \A m \in 1..Len(doc.lineOffsets) :
                          doc.lineOffsets[m] <= o => m <= l
    IN  [line |-> line - 1, character |-> o - doc.lineOffsets[line]]

\* TextDocument.offsetAt: the line's offset plus the character, kept in the line.
offsetAt(doc, position) ==
    LET n == Len(doc.lineOffsets)
    IN  IF position.line >= n THEN doc.len
        ELSE IF position.line < 0 THEN 0
        ELSE LET lineOffset == doc.lineOffsets[position.line + 1]
                 nextLineOffset == IF position.line + 1 < n
                                   THEN doc.lineOffsets[position.line + 2]
                                   ELSE doc.len
             IN  Max(Min(lineOffset + position.character, nextLineOffset), lineOffset)

\* position order: by line, then by character
PosLess(p, q) ==
    \/ p.line < q.line
    \/ p.line = q.line /\ p.character < q.character

\* the positions of a document
Positions(doc) == {positionAt(doc, o) : o \in 0..doc.len}

\* the ranges of a document with start <= end
Ranges(doc) ==
    {[start |-> positionAt(doc, s), end |-> positionAt(doc, e)] :
        s \in 0..doc.len, e \in 0..doc.len} \
    {r \in [start : Positions(doc), end : Positions(doc)] : PosLess(r.end, r.start)}

\* ---------------------------------------------------- SourceMapBase (spec)
\* SourceMapBase.matchOffset, from the specification: an entry's origin-side
\* range contains the offset (both ends included: a query at an entry's first
\* offset and a range ending at its last offset are both resolved by it, and a
\* zero-length entry matches its own offset), and the translation is the linear
\* shift dest.start + (offset - origin.start).  The result is a sequence of
\* zero or one offsets.
matchOffset(start, mappedFromRange, mappedToRange, baseOnRight) ==
    IF start >= mappedFromRange[1] /\ start <= mappedFromRange[2]
    THEN <<mappedToRange[1] + (start - mappedFromRange[1])>>
    ELSE <<>>

\* SourceMapBase.matcing, from the specification: every entry, in table order,
\* whose origin-side range contains the offset, with the translated offset.
\* A result is <<offset, i>>, i the index of the entry in the table (its
\* identity).
RECURSIVE matcingFrom(_, _, _, _, _, _)
matcingFrom(i, table, startOffset, from, to, baseOnRight) ==
    IF i > Len(table) THEN <<>>
    ELSE LET mapped == matchOffset(startOffset, table[i][from], table[i][to], baseOnRight)
             rest == matcingFrom(i + 1, table, startOffset, from, to, baseOnRight)
         IN  IF mapped # <<>> THEN <<<<mapped[1], i>>>> \o rest ELSE rest

matcing(table, startOffset, from, to, baseOnRight) ==
    matcingFrom(1, table, startOffset, from, to, baseOnRight)

\* ---------------------------------------------------------------- SourceMap
\* A SourceMap is [sourceDocument, mappedDocument, mappings].
\* A filter is a predicate on an entry's data: "any" is the default () => true,
\* "capable" is a capability test such as data => !!data.references.
Filters == {"any", "capable"}

filter(f, data) == f = "any" \/ data

\* toPositions that yields every accepted match twice
RECURSIVE toPositionsOf_twice(_, _, _, _, _)
toPositionsOf_twice(matched, table, f, toDoc, baseOffset) ==
    IF matched = <<>> THEN <<>>
    ELSE LET mapped == Head(matched)
             mapping == table[mapped[2]]
             rest == toPositionsOf_twice(Tail(matched), table, f, toDoc, baseOffset)
             offset == IF baseOffset = "right"
                       THEN mapped[1]
                            + (mapping.sourceRange[2] - mapping.sourceRange[1])
                            - (mapping.generatedRange[2] - mapping.generatedRange[1])
                       ELSE mapped[1]
         IN  IF ~filter(f, mapping.data) THEN rest
             ELSE <<<<positionAt(toDoc, offset), mapped[2]>>,
                    <<positionAt(toDoc, offset), mapped[2]>>>> \o rest

\* SourceMap.toPositions: results are <<position, i>>
RECURSIVE toPositionsOf(_, _, _, _, _)
toPositionsOf(matched, table, f, toDoc, baseOffset) ==
    IF matched = <<>> THEN <<>>
    ELSE LET mapped == Head(matched)
             mapping == table[mapped[2]]
             rest == toPositionsOf(Tail(matched), table, f, toDoc, baseOffset)
             offset == IF baseOffset = "right"
                       THEN mapped[1]
                            + (mapping.sourceRange[2] - mapping.sourceRange[1])
                            - (mapping.generatedRange[2] - mapping.generatedRange[1])
                       ELSE mapped[1]
         IN  IF ~filter(f, mapping.data) THEN rest
             ELSE <<<<positionAt(toDoc, offset), mapped[2]>>>> \o rest

toPositions(map, position, f, fromDoc, toDoc, from, to, baseOffset) ==
    toPositionsOf(
        matcing(map.mappings, offsetAt(fromDoc, position), from, to, baseOffset = "right"),
        map.mappings, f, toDoc, baseOffset)

toSourcePositionsBase(map, position, f, baseOffset) ==
    toPositions(map, position, f, map.mappedDocument, map.sourceDocument,
                "generatedRange", "sourceRange", baseOffset)

toGeneratedPositionsBase(map, position, f, baseOffset) ==
    toPositions(map, position, f, map.sourceDocument, map.mappedDocument,
                "sourceRange", "generatedRange", baseOffset)

\* SourceMap.toSourcePositions / toGeneratedPositions: the positions alone
toSourcePositions(map, position, f, baseOffset) ==
    LET r == toSourcePositionsBase(map, position, f, baseOffset)
    IN  [i \in 1..Len(r) |-> r[i][1]]

toGeneratedPositions(map, position, f, baseOffset) ==
    LET r == toGeneratedPositionsBase(map, position, f, baseOffset)
    IN  [i \in 1..Len(r) |-> r[i][1]]

\* "for (const x of gen) return x": the first result, or nothing
first(s) == IF s = <<>> THEN <<>> ELSE <<Head(s)>>

toSourcePosition(map, position, f, baseOffset) ==
    first(toSourcePositions(map, position, f, baseOffset))

toGeneratedPosition(map, position, f, baseOffset) ==
    first(toGeneratedPositions(map, position, f, baseOffset))

\* matchSourcePosition with the two ranges of the entry taken the wrong way round
matchSourcePosition_swapped(map, position, mapping, baseOffset) ==
    LET offset == matchOffset(offsetAt(map.mappedDocument, position),
                              mapping["sourceRange"], mapping["generatedRange"],
                              baseOffset = "right")
    IN  IF offset # <<>> THEN <<positionAt(map.sourceDocument, offset[1])>> ELSE <<>>

\* SourceMap.matchSourcePosition / matchGeneratedPosition: through one entry
matchSourcePosition(map, position, mapping, baseOffset) ==
    LET offset == matchOffset(offsetAt(map.mappedDocument, position),
                              mapping["generatedRange"], mapping["sourceRange"],
                              baseOffset = "right")
    IN  IF offset # <<>> THEN <<positionAt(map.sourceDocument, offset[1])>> ELSE <<>>

matchGeneratedPosition(map, position, mapping, baseOffset) ==
    LET offset == matchOffset(offsetAt(map.sourceDocument, position),
                              mapping["sourceRange"], mapping["generatedRange"],
                              baseOffset = "right")
    IN  IF offset # <<>> THEN <<positionAt(map.mappedDocument, offset[1])>> ELSE <<>>

\* the two string-keyed dispatches of toRanges: this[api](...) and this[api2](...)
callApi(map, api, position, f, baseOffset) ==
    IF api = "toSourcePositionsBase"
    THEN toSourcePositionsBase(map, position, f, baseOffset)
    ELSE toGeneratedPositionsBase(map, position, f, baseOffset)

callApi2(map, api2, position, mapping, baseOffset) ==
    IF api2 = "matchSourcePosition"
    THEN matchSourcePosition(map, position, mapping, baseOffset)
    ELSE matchGeneratedPosition(map, position, mapping, baseOffset)

\* SourceMap.toRanges, first loop: the same-entry results, in order.  Each
\* result carries its phase and the entry that matched its start.
RECURSIVE sameEntryRanges(_, _, _, _)
sameEntryRanges(map, starts, range, api2) ==
    IF starts = <<>> THEN <<>>
    ELSE LET mapped == Head(starts)
             end == callApi2(map, api2, range.end, map.mappings[mapped[2]], "right")
             rest == sameEntryRanges(map, Tail(starts), range, api2)
         IN  IF end # <<>>
             THEN <<[start |-> mapped[1], end |-> end[1],
                     phase |-> "same", entry |-> mapped[2]]>> \o rest
             ELSE rest

\* SourceMap.toRanges, first loop: the start matches whose entry did not
\* resolve the end
RECURSIVE failedLookUps(_, _, _, _)
failedLookUps(map, starts, range, api2) ==
    IF starts = <<>> THEN <<>>
    ELSE LET mapped == Head(starts)
             end == callApi2(map, api2, range.end, map.mappings[mapped[2]], "right")
             rest == failedLookUps(map, Tail(starts), range, api2)
         IN  IF end # <<>> THEN rest ELSE <<mapped>> \o rest

\* SourceMap.toRanges, second loop: every failed start paired with every match
\* of the end
RECURSIVE fallbackRanges(_, _)
fallbackRanges(failed, ends) ==
    IF failed = <<>> THEN <<>>
    ELSE [i \in 1..Len(ends) |->
             [start |-> Head(failed)[1], end |-> ends[i][1],
              phase |-> "fallback", entry |-> Head(failed)[2]]]
         \o fallbackRanges(Tail(failed), ends)

\* toRanges that yields the cross-entry results before the same-entry ones
toRangesTagged_fallbackFirst(map, range, f, api, api2) ==
    LET starts == callApi(map, api, range.start, f, "left")
        failed == failedLookUps(map, starts, range, api2)
    IN  (IF failed = <<>> THEN <<>>
         ELSE fallbackRanges(failed, callApi(map, api, range.end, f, "right")))
        \o sameEntryRanges(map, starts, range, api2)

toRangesTagged(map, range, f, api, api2) ==
    LET starts == callApi(map, api, range.start, f, "left")
        failed == failedLookUps(map, starts, range, api2)
    IN  sameEntryRanges(map, starts, range, api2)
        \o (IF failed = <<>> THEN <<>>
            ELSE fallbackRanges(failed, callApi(map, api, range.end, f, "right")))

\* SourceMap.toRanges: the ranges it yields, in order
toRanges(map, range, f, api, api2) ==
    LET r == toRangesTagged(map, range, f, api, api2)
    IN  [i \in 1..Len(r) |-> [start |-> r[i].start, end |-> r[i].end]]

toSourceRanges(map, range, f) ==
    toRanges(map, range, f, "toSourcePositionsBase", "matchSourcePosition")

toGeneratedRanges(map, range, f) ==
    toRanges(map, range, f, "toGeneratedPositionsBase", "matchGeneratedPosition")

toSourceRange(map, range, f) == first(toSourceRanges(map, range, f))

toGeneratedRange(map, range, f) == first(toGeneratedRanges(map, range, f))

\* ------------------------------------------- pug-language-service: hover
\* A pug document's map carries a MappingKind per entry; data is TRUE for every
\* kind but EmptyTagCompletion, so that the hover's filter
\* data => data !== MappingKind.EmptyTagCompletion is the filter "capable".

\* transformHover (from the specification: the result transform rewrites the
\* range of a payload, and gives the payload up when the range has no source
\* range): a hover without a range goes through as it is
transformHover(hover, map) ==
    IF "range" \notin DOMAIN hover THEN <<hover>>
    ELSE LET range == toSourceRange(map, hover.range, "any")
         IN  IF range = <<>> THEN <<>> ELSE <<[hover EXCEPT !.range = range[1]]>>

\* the hover that asks the HTML service about the pug position itself when
\* the position has no HTML position
pugHover_alwaysAsks(map, pos, htmlResult) ==
    LET htmlPos == toGeneratedPosition(map, pos, "capable", "left")
    IN  [result |-> IF htmlResult = <<>> THEN <<>> ELSE transformHover(htmlResult[1], map),
         doHover |-> IF htmlPos = <<>> THEN <<pos>> ELSE <<htmlPos[1]>>]

\* register(htmlLs)(pugDoc, pos): result is what the hover returns, doHover
\* the positions htmlLs.doHover was called at, in order; htmlResult is what
\* htmlLs.doHover answers when it is called
pugHover(map, pos, htmlResult) ==
    LET htmlPos == toGeneratedPosition(map, pos, "capable", "left")
    IN  IF htmlPos = <<>> THEN [result |-> <<>>, doHover |-> <<>>]
        ELSE [result |-> IF htmlResult = <<>> THEN <<>>
                         ELSE transformHover(htmlResult[1], map),
              doHover |-> <<htmlPos[1]>>]

\* what the HTML service may answer: nothing, a hover without a range, a hover
\* with a range of the HTML document that starts at its first offset
HtmlHovers ==
    {<<>>, <<[contents |-> "html"]>>}
    \cup {<<[contents |-> "html", range |-> r]>> :
             r \in {x \in Ranges(mappedDocument) : x.start = positionAt(mappedDocument, 0)}}

\* -------------------------------------------- the SourceMap under queries
\* offset pairs [start, end] with start <= end <= max
OffsetRanges(max) == {r \in (0..max) \X (0..max) : r[1] <= r[2]}

\* a mapping entry; data is the capability the "capable" filter tests
Entries(max) ==
    [sourceRange : OffsetRanges(max), generatedRange : OffsetRanges(max), data : BOOLEAN]

\* the tables of up to MaxEntries entries
Tables == UNION {[1..n -> Entries(MaxOff)] : n \in 0..MaxEntries}

\* the tables of one entry, over the whole documents
OneEntryTables == [1..1 -> Entries(MaxOffOne)]

\* new SourceMap(sourceDocument, mappedDocument, mappings)
SourceMap(table) ==
    [sourceDocument |-> sourceDocument, mappedDocument |-> mappedDocument,
     mappings |-> table]

theMap == SourceMap(mappings)

Biases == {"left", "right"}

\* The arguments of a query: the offsets of a position (start) or of a range
\* (start..end) in the document the query is made in, a filter and a bias;
\* entry is the table entry a single-entry operation went through (0: none).
Args == {a \in [start : 0..DocLen, end : 0..DocLen, filter : Filters,
                baseOffset : Biases, entry : {0}] :
            /\ a.start <= a.end
            /\ a.start = a.end \/ a.baseOffset = "left"}

argRange(doc) == [start |-> positionAt(doc, arg.start), end |-> positionAt(doc, arg.end)]

argPosition(doc) == positionAt(doc, arg.start)

\* a range query takes no bias; a position query is made at arg.start
IsRangeQuery == arg.baseOffset = "left"

IsPositionQuery == arg.end = arg.start

InitMap ==
    /\ mappings \in Tables
    /\ arg \in Args
    /\ op = "new"
    /\ ret = <<>>
    /\ InitRegistry
    /\ asked = <<>>
    /\ NoProject

InitEntry ==
    /\ mappings \in OneEntryTables
    /\ arg \in {a \in Args : a.start = a.end}
    /\ op = "new"
    /\ ret = <<>>
    /\ InitRegistry
    /\ asked = <<>>
    /\ NoProject

CallToSourceRange ==
    /\ op = "new" /\ IsRangeQuery
    /\ op' = "toSourceRange"
    /\ ret' = toSourceRange(theMap, argRange(mappedDocument), arg.filter)
    /\ UNCHANGED <<mappings, arg, regVars, asked, projVars>>

CallToGeneratedRange ==
    /\ op = "new" /\ IsRangeQuery
    /\ op' = "toGeneratedRange"
    /\ ret' = toGeneratedRange(theMap, argRange(sourceDocument), arg.filter)
    /\ UNCHANGED <<mappings, arg, regVars, asked, projVars>>

CallToSourceRanges ==
    /\ op = "new" /\ IsRangeQuery
    /\ op' = "toSourceRanges"
    /\ ret' = toSourceRanges(theMap, argRange(mappedDocument), arg.filter)
    /\ UNCHANGED <<mappings, arg, regVars, asked, projVars>>

CallToGeneratedRanges ==
    /\ op = "new" /\ IsRangeQuery
    /\ op' = "toGeneratedRanges"
    /\ ret' = toGeneratedRanges(theMap, argRange(sourceDocument), arg.filter)
    /\ UNCHANGED <<mappings, arg, regVars, asked, projVars>>

CallToSourcePosition ==
    /\ op = "new" /\ IsPositionQuery
    /\ op' = "toSourcePosition"
    /\ ret' = toSourcePosition(theMap, argPosition(mappedDocument), arg.filter, arg.baseOffset)
    /\ UNCHANGED <<mappings, arg, regVars, asked, projVars>>

CallToGeneratedPosition ==
    /\ op = "new" /\ IsPositionQuery
    /\ op' = "toGeneratedPosition"
    /\ ret' = toGeneratedPosition(theMap, argPosition(sourceDocument), arg.filter, arg.baseOffset)
    /\ UNCHANGED <<mappings, arg, regVars, asked, projVars>>

CallToSourcePositions ==
    /\ op = "new" /\ IsPositionQuery
    /\ op' = "toSourcePositions"
    /\ ret' = toSourcePositions(theMap, argPosition(mappedDocument), arg.filter, arg.baseOffset)
    /\ UNCHANGED <<mappings, arg, regVars, asked, projVars>>

CallToGeneratedPositions ==
    /\ op = "new" /\ IsPositionQuery
    /\ op' = "toGeneratedPositions"
    /\ ret' = toGeneratedPositions(theMap, argPosition(sourceDocument), arg.filter, arg.baseOffset)
    /\ UNCHANGED <<mappings, arg, regVars, asked, projVars>>

\* the pug hover at a position; it takes no filter and no bias of its own
CallPugHover ==
    /\ op = "new" /\ IsPositionQuery
    /\ arg.filter = "capable" /\ arg.baseOffset = "left"
    /\ \E htmlResult \in HtmlHovers :
        /\ op' = "pugHover"
        /\ ret' = pugHover(theMap, argPosition(sourceDocument), htmlResult)
    /\ UNCHANGED <<mappings, arg, regVars, asked, projVars>>

\* A position translated through one chosen entry of the table ...
CallMatchGeneratedPosition ==
    /\ op = "new" /\ IsPositionQuery
    /\ \E i \in 1..Len(mappings) :
        /\ op' = "matchGeneratedPosition"
        /\ arg' = [arg EXCEPT !.entry = i]
        /\ ret' = matchGeneratedPosition(theMap, argPosition(sourceDocument),
                                         mappings[i], arg.baseOffset)
    /\ UNCHANGED <<mappings, regVars, asked, projVars>>

CallMatchSourcePosition ==
    /\ op = "new" /\ IsPositionQuery
    /\ \E i \in 1..Len(mappings) :
        /\ op' = "matchSourcePosition"
        /\ arg' = [arg EXCEPT !.entry = i]
        /\ ret' = matchSourcePosition(theMap, argPosition(mappedDocument),
                                      mappings[i], arg.baseOffset)
    /\ UNCHANGED <<mappings, regVars, asked, projVars>>

\* ... and its result translated back through the same entry, same bias.
BackMatchSourcePosition ==
    /\ op = "matchGeneratedPosition"
    /\ ret # <<>>
    /\ op' = "matchGeneratedPosition.matchSourcePosition"
    /\ ret' = matchSourcePosition(theMap, ret[1], mappings[arg.entry], arg.baseOffset)
    /\ UNCHANGED <<mappings, arg, regVars, asked, projVars>>

BackMatchGeneratedPosition ==
    /\ op = "matchSourcePosition"
    /\ ret # <<>>
    /\ op' = "matchSourcePosition.matchGeneratedPosition"
    /\ ret' = matchGeneratedPosition(theMap, ret[1], mappings[arg.entry], arg.baseOffset)
    /\ UNCHANGED <<mappings, arg, regVars, asked, projVars>>

\* the positions of the results <<position, i>> that went through entry e
RECURSIVE throughEntry(_, _)
throughEntry(results, e) ==
    IF results = <<>> THEN <<>>
    ELSE (IF Head(results)[2] = e THEN <<Head(results)[1]>> ELSE <<>>)
         \o throughEntry(Tail(results), e)

\* The same round trip with the table-scanning API: one result of
\* toGeneratedPositionsBase (resp. toSourcePositionsBase) is translated back,
\* and the results that went through the same entry are kept.
CallToGeneratedPositionsBase ==
    /\ op = "new" /\ IsPositionQuery
    /\ op' = "toGeneratedPositionsBase"
    /\ ret' = toGeneratedPositionsBase(theMap, argPosition(sourceDocument),
                                       arg.filter, arg.baseOffset)
    /\ UNCHANGED <<mappings, arg, regVars, asked, projVars>>

CallToSourcePositionsBase ==
    /\ op = "new" /\ IsPositionQuery
    /\ op' = "toSourcePositionsBase"
    /\ ret' = toSourcePositionsBase(theMap, argPosition(mappedDocument),
                                    arg.filter, arg.baseOffset)
    /\ UNCHANGED <<mappings, arg, regVars, asked, projVars>>

BackToSourcePositionsBase ==
    /\ op = "toGeneratedPositionsBase"
    /\ \E j \in 1..Len(ret) :
        /\ op' = "toGeneratedPositionsBase.toSourcePositionsBase"
        /\ arg' = [arg EXCEPT !.entry = ret[j][2]]
        /\ ret' = throughEntry(
                      toSourcePositionsBase(theMap, ret[j][1], arg.filter, arg.baseOffset),
                      ret[j][2])
    /\ UNCHANGED <<mappings, regVars, asked, projVars>>

BackToGeneratedPositionsBase ==
    /\ op = "toSourcePositionsBase"
    /\ \E j \in 1..Len(ret) :
        /\ op' = "toSourcePositionsBase.toGeneratedPositionsBase"
        /\ arg' = [arg EXCEPT !.entry = ret[j][2]]
        /\ ret' = throughEntry(
                      toGeneratedPositionsBase(theMap, ret[j][1], arg.filter, arg.baseOffset),
                      ret[j][2])
    /\ UNCHANGED <<mappings, regVars, asked, projVars>>

NextEntry ==
    \/ CallMatchGeneratedPosition
    \/ CallMatchSourcePosition
    \/ BackMatchSourcePosition
    \/ BackMatchGeneratedPosition
    \/ CallToGeneratedPositionsBase
    \/ CallToSourcePositionsBase
    \/ BackToSourcePositionsBase
    \/ BackToGeneratedPositionsBase

SpecEntry == InitEntry /\ [][NextEntry]_vars

\* ------------------------------------------------------ TeleportSourceMap
\* findTeleports whose second loop reads the first loop's capabilities
RECURSIVE teleportsOf_sameCaps(_, _, _)
teleportsOf_sameCaps(mapped, table, loop) ==
    IF mapped = <<>> THEN <<>>
    ELSE <<[position |-> Head(mapped)[1],
            capabilities |-> table[Head(mapped)[2]].data.toGenedCapabilities,
            entry |-> Head(mapped)[2], loop |-> loop]>>
         \o teleportsOf_sameCaps(Tail(mapped), table, loop)

\* one loop of findTeleports: each <<position, i>> with the capabilities of
\* its direction, plus the entry and the loop that yielded it
RECURSIVE teleportsOf(_, _, _)
teleportsOf(mapped, table, loop) ==
    IF mapped = <<>> THEN <<>>
    ELSE <<[position |-> Head(mapped)[1],
            capabilities |-> IF loop = "toGenerated"
                             THEN table[Head(mapped)[2]].data.toGenedCapabilities
                             ELSE table[Head(mapped)[2]].data.toSourceCapabilities,
            entry |-> Head(mapped)[2], loop |-> loop]>>
         \o teleportsOf(Tail(mapped), table, loop)

\* new TeleportSourceMap(file, document, mappings): super(document, document, mappings)
TeleportSourceMap(document, table) ==
    [sourceDocument |-> document, mappedDocument |-> document, mappings |-> table]

\* TeleportSourceMap.findTeleports
findTeleports(map, start) ==
    teleportsOf(toGeneratedPositionsBase(map, start, "any", "left"),
                map.mappings, "toGenerated")
    \o teleportsOf(toSourcePositionsBase(map, start, "any", "left"),
                   map.mappings, "toSource")

\* ------------------------------------ the SourceMap as a TeleportSourceMap
\* the table of a TeleportSourceMap over the ranges of `mappings`: every entry
\* teleports references one way and renames the other way
asTeleportMappings ==
    [i \in 1..Len(mappings) |->
        [sourceRange |-> mappings[i].sourceRange,
         generatedRange |-> mappings[i].generatedRange,
         data |-> [toGenedCapabilities |-> "references",
                   toSourceCapabilities |-> "rename"]]]

\* findTeleports at a position of a teleport map of several entries
CallMapFindTeleports ==
    /\ op = "new" /\ IsPositionQuery
    /\ arg.filter = "any" /\ arg.baseOffset = "left"
    /\ op' = "findTeleports"
    /\ ret' = findTeleports(TeleportSourceMap(mappedDocument, asTeleportMappings),
                            argPosition(mappedDocument))
    /\ UNCHANGED <<mappings, arg, regVars, asked, projVars>>

NextMap ==
    \/ CallToSourceRange
    \/ CallToGeneratedRange
    \/ CallToSourceRanges
    \/ CallToGeneratedRanges
    \/ CallToSourcePosition
    \/ CallToGeneratedPosition
    \/ CallToSourcePositions
    \/ CallToGeneratedPositions
    \/ CallPugHover
    \/ CallMapFindTeleports

SpecMap == InitMap /\ [][NextMap]_vars

\* translations through one entry, and back
Capabilities == {"references", "rename"}

\* a teleport entry: sourceRange is rangeA, generatedRange is rangeB
TeleportEntries ==
    [sourceRange : OffsetRanges(MaxTeleOff), generatedRange : OffsetRanges(MaxTeleOff),
     data : [toGenedCapabilities : Capabilities, toSourceCapabilities : Capabilities]]

TeleportTables == UNION {[1..n -> TeleportEntries] : n \in 0..MaxTeleports}

InitTeleport ==
    /\ mappings \in TeleportTables
    /\ arg \in {a \in Args : a.start = a.end /\ a.filter = "any" /\ a.baseOffset = "left"}
    /\ op = "new"
    /\ ret = <<>>
    /\ InitRegistry
    /\ asked = <<>>
    /\ NoProject

CallFindTeleports ==
    /\ op = "new"
    /\ op' = "findTeleports"
    /\ ret' = findTeleports(TeleportSourceMap(mappedDocument, mappings),
                            argPosition(mappedDocument))
    /\ UNCHANGED <<mappings, arg, regVars, asked, projVars>>

NextTeleport == CallFindTeleports

SpecTeleport == InitTeleport /\ [][NextTeleport]_vars

\* --------------------------------------------- parseSourceFileDocuments
\* shared.getPathOfUri / shared.getUriByPath: a file uri and its path
getPathOfUri(uri) == uri.path

getUriByPath(path) == [scheme |-> "file", path |-> path]

\* String.prototype.toLowerCase, on the file names in use
toLowerCase(name) == IF name = "/A.vue.ts" THEN "/a.vue.ts" ELSE name

\* shared.syntaxToLanguageId(fileName.substring(fileName.lastIndexOf('.') + 1))
languageIdOf(fileName) ==
    IF toLowerCase(fileName) = "/a.vue.ts" THEN "typescript"
    ELSE IF fileName = "/a.vue.css" THEN "css"
    ELSE "vue"

\* the texts a snapshot may hold
Texts == {[id |-> "one line", len |-> 2, lineOffsets |-> <<0>>],
          [id |-> "two lines", len |-> 3, lineOffsets |-> <<0, 1>>]}

\* TextDocument.create(uri, languageId, version, text)
TextDocument(uri, languageId, v, text) ==
    [uri |-> uri, languageId |-> languageId, version |-> v,
     text |-> text.id, len |-> text.len, lineOffsets |-> text.lineOffsets]

\* a VirtualFile of the embedding provider; teleportMappings is <<>> (absent)
\* or <<table>>
VirtualFile(fileName, table, teleportMappings, embeddeds) ==
    [fileName |-> fileName,
     text |-> [id |-> fileName, len |-> DocLen, lineOffsets |-> <<0>>],
     mappings |-> table, teleportMappings |-> teleportMappings,
     embeddeds |-> embeddeds]

OneMapping == <<[sourceRange |-> <<0, 1>>, generatedRange |-> <<1, 2>>, data |-> TRUE]>>

OneTeleport ==
    <<[sourceRange |-> <<0, 1>>, generatedRange |-> <<1, 2>>,
       data |-> [toGenedCapabilities |-> "references", toSourceCapabilities |-> "rename"]]>>

\* the virtual file trees the provider may report for each source
RootFiles(source) ==
    IF source = "/a.vue"
    THEN {VirtualFile("/a.vue", <<>>, <<>>,
              <<VirtualFile("/a.vue.ts", OneMapping, <<OneTeleport>>, <<>>)>>),
          VirtualFile("/a.vue", <<>>, <<>>,
              <<VirtualFile("/a.vue.ts", OneMapping, <<OneTeleport>>,
                    <<VirtualFile("/a.vue.css", OneMapping, <<>>, <<>>)>>)>>)}
    ELSE {VirtualFile("/b.vue", OneMapping, <<>>, <<>>)}

\* forEachEmbeddeds (from the specification: the pre-order walk of the tree),
\* as the sequence of the files visited
RECURSIVE forEachEmbeddeds(_)
forEachEmbeddeds(file) ==
    <<file>> \o flat([i \in 1..Len(file.embeddeds) |-> forEachEmbeddeds(file.embeddeds[i])])

\* DocumentRegistry.get(fileName): <<snapshot, rootFile>> of a source, or nothing
mapperGet(fileName) ==
    IF fileName \in Sources /\ mapper[fileName] # <<>>
    THEN <<mapper[fileName][1].snapshot, mapper[fileName][1].rootFile>>
    ELSE <<>>

\* DocumentRegistry.getSourceByVirtualFileName(fileName):
\* <<source file name, snapshot, rootFile>> of the source whose tree holds the
\* virtual file (the provider's index ignores case), or nothing
owners(fileName) ==
    {src \in Sources :
        /\ mapper[src] # <<>>
        /\ \E i \in 1..Len(forEachEmbeddeds(mapper[src][1].rootFile)) :
              toLowerCase(forEachEmbeddeds(mapper[src][1].rootFile)[i].fileName)
                  = toLowerCase(fileName)}

getSourceByVirtualFileName(fileName) ==
    IF owners(fileName) = {} THEN <<>>
    ELSE LET src == CHOOSE x \in owners(fileName) : TRUE
         IN  <<src, mapper[src][1].snapshot, mapper[src][1].rootFile>>

\* new EmbeddedDocumentSourceMap(rootFile, file, sourceDocument, mappedDocument, mappings)
EmbeddedDocumentSourceMap(rootFile, file, sourceDoc, mappedDoc, table) ==
    [rootFile |-> rootFile, file |-> file, sourceDocument |-> sourceDoc,
     mappedDocument |-> mappedDoc, mappings |-> table]

\* the teleports of the files that have teleportMappings, in the order visited
RECURSIVE teleportsFrom(_, _, _)
teleportsFrom(i, files, v) ==
    IF i > Len(files) THEN <<>>
    ELSE LET file == files[i]
             virtualFileDocument ==
                 TextDocument(getUriByPath(file.fileName), languageIdOf(file.fileName),
                              v + i, file.text)
         IN  (IF file.teleportMappings # <<>>
              THEN <<[file |-> file]
                     @@ TeleportSourceMap(virtualFileDocument, file.teleportMappings[1])>>
              ELSE <<>>)
             \o teleportsFrom(i + 1, files, v)

\* the bundle that maps the root file alone, whatever it embeds
newBundle_rootOnly(fileName, snapshot, rootFile, v) ==
    LET document == TextDocument(getUriByPath(fileName), "vue", v, heap[snapshot])
    IN  [fileName |-> fileName,
         snapshot |-> snapshot,
         document |-> document,
         file |-> rootFile,
         maps |-> <<EmbeddedDocumentSourceMap(rootFile, rootFile, document,
                        TextDocument(getUriByPath(rootFile.fileName),
                                     languageIdOf(rootFile.fileName), v + 1, rootFile.text),
                        rootFile.mappings)>>,
         teleports |-> teleportsFrom(1, <<rootFile>>, v)]

\* getMaps, the miss: the bundle built for a snapshot.  The source document
\* takes version v, the i-th file visited takes version v + i.
newBundle(fileName, snapshot, rootFile, v) ==
    LET document == TextDocument(getUriByPath(fileName), "vue", v, heap[snapshot])
        files == forEachEmbeddeds(rootFile)
    IN  [fileName |-> fileName,
         snapshot |-> snapshot,
         document |-> document,
         file |-> rootFile,
         maps |-> [i \in 1..Len(files) |->
                      EmbeddedDocumentSourceMap(rootFile, files[i], document,
                          TextDocument(getUriByPath(files[i].fileName),
                                       languageIdOf(files[i].fileName), v + i, files[i].text),
                          files[i].mappings)],
         teleports |-> teleportsFrom(1, files, v)]

\* getMaps, the hit: the bundle cached for the snapshot
cached(snapshot) ==
    [result |-> snapshotsToMaps[snapshot],
     cache |-> snapshotsToMaps, version |-> version, miss |-> FALSE]

\* getMaps, the miss: the bundle built is stored under the snapshot, and the
\* version counter has passed the documents created
stored(snapshot, result) ==
    [result |-> result,
     cache |-> snapshotsToMaps @@ (snapshot :> result),
     version |-> version + 1 + Len(result.maps), miss |-> TRUE]

\* getMaps keyed by the file name instead of the snapshot object: it returns
\* the bundle cached for the file, whatever snapshot it was built from
getMaps_byFileName(fileName, snapshot, rootFile) ==
    IF \E s \in DOMAIN snapshotsToMaps : snapshotsToMaps[s].fileName = fileName
    THEN cached(CHOOSE s \in DOMAIN snapshotsToMaps : snapshotsToMaps[s].fileName = fileName)
    ELSE stored(snapshot, newBundle(fileName, snapshot, rootFile, version))

\* getMaps that never stores what it builds
getMaps_noStore(fileName, snapshot, rootFile) ==
    IF snapshot \in DOMAIN snapshotsToMaps
    THEN cached(snapshot)
    ELSE [stored(snapshot, newBundle(fileName, snapshot, rootFile, version))
              EXCEPT !.cache = snapshotsToMaps]

\* getMaps: the bundle of a snapshot, the cache and the version counter after
\* the call, and whether the bundle was built by this call
getMaps(fileName, snapshot, rootFile) ==
    IF snapshot \in DOMAIN snapshotsToMaps
    THEN cached(snapshot)
    ELSE stored(snapshot, newBundle(fileName, snapshot, rootFile, version))

\* "for (const [_, map] of maps) if (lower-cased file names agree) return map"
RECURSIVE firstOfFile(_, _)
firstOfFile(maps, fileName) ==
    IF maps = <<>> THEN <<>>
    ELSE IF toLowerCase(Head(maps).file.fileName) = toLowerCase(fileName)
         THEN <<Head(maps)>>
         ELSE firstOfFile(Tail(maps), fileName)

\* getMap(virtualFileUri), its way through getMaps: the outcome of getMaps for
\* the source that owns the virtual file, or nothing when no source owns it
getMapsOf(source) ==
    IF source # <<>>
    THEN <<getMaps(source[1], source[2], source[3])>>
    ELSE <<>>

getMapResult(virtualFileUri) ==
    getMapsOf(getSourceByVirtualFileName(getPathOfUri(virtualFileUri)))

\* getMap(virtualFileUri), its loop over the maps of the bundle
mapOfFile(r, fileName) ==
    IF r # <<>> THEN firstOfFile(r[1].result.maps, fileName) ELSE <<>>

\* getMap(virtualFileUri): the map it returns, or nothing
documentsGetMap(virtualFileUri) ==
    mapOfFile(getMapResult(virtualFileUri), getPathOfUri(virtualFileUri))

\* the uris a registry call is made with
SourceUris == {getUriByPath(src) : src \in Sources}

VirtualFileUris ==
    {getUriByPath(n) : n \in {"/a.vue", "/a.vue.ts", "/A.vue.ts", "/a.vue.css", "/b.vue"}}

RegArg(uri) == [uri |-> uri]

InitReg ==
    /\ mappings = <<>>
    /\ op = "new"
    /\ arg = RegArg(getUriByPath("/a.vue"))
    /\ ret = <<>>
    /\ InitRegistry
    /\ asked = <<>>
    /\ NoProject

\* the registry state after a call that went through getMaps with outcome r
AfterGetMaps(r) ==
    /\ snapshotsToMaps' = r.cache
    /\ version' = r.version
    /\ used' = <<r.result>>
    /\ built' = IF r.miss
                THEN [built EXCEPT ![r.result.snapshot] = Append(@, r.result)]
                ELSE built
    /\ UNCHANGED <<mapper, heap, mappings>>

\* a call that found no source and did not reach getMaps
NoGetMaps ==
    /\ ret' = <<>>
    /\ used' = <<>>
    /\ UNCHANGED <<snapshotsToMaps, version, built, mapper, heap, mappings>>

\* get(uri)
Get ==
    /\ UNCHANGED <<asked, projVars>>
    /\ \E uri \in SourceUris \cup VirtualFileUris :
           /\ op' = "get"
           /\ arg' = RegArg(uri)
           /\ LET fileName == getPathOfUri(uri)
                  virtualFile == mapperGet(fileName)
              IN  IF virtualFile # <<>>
                  THEN LET r == getMaps(fileName, virtualFile[1], virtualFile[2])
                       IN  ret' = <<r.result>> /\ AfterGetMaps(r)
                  ELSE NoGetMaps

\* getTeleport(virtualFileUri)
GetTeleport ==
    /\ UNCHANGED <<asked, projVars>>
    /\ \E virtualFileUri \in VirtualFileUris :
           /\ op' = "getTeleport"
           /\ arg' = RegArg(virtualFileUri)
           /\ LET fileName == getPathOfUri(virtualFileUri)
                  source == getSourceByVirtualFileName(fileName)
              IN  IF source # <<>>
                  THEN LET r == getMaps(source[1], source[2], source[3])
                       IN  ret' = firstOfFile(r.result.teleports, fileName) /\ AfterGetMaps(r)
                  ELSE NoGetMaps

\* getMap(virtualFileUri)
GetMap ==
    /\ UNCHANGED <<asked, projVars>>
    /\ \E virtualFileUri \in VirtualFileUris :
           /\ op' = "getMap"
           /\ arg' = RegArg(virtualFileUri)
           /\ IF getMapResult(virtualFileUri) # <<>>
              THEN /\ ret' = documentsGetMap(virtualFileUri)
                   /\ AfterGetMaps(getMapResult(virtualFileUri)[1])
              ELSE NoGetMaps

\* The embedding provider: an edit (or the first opening) of a source gives
\* it a new snapshot object and a root file.
Edit ==
    /\ Len(heap) < MaxSnapshots
    /\ \E src \in Sources, text \in Texts : \E rootFile \in RootFiles(src) :
        /\ heap' = Append(heap, text)
        /\ built' = Append(built, <<>>)
        /\ mapper' = [mapper EXCEPT ![src] =
                          <<[snapshot |-> Len(heap) + 1, rootFile |-> rootFile]>>]
        /\ op' = "edit"
        /\ arg' = RegArg(getUriByPath(src))
        /\ ret' = <<>>
        /\ used' = <<>>
    /\ UNCHANGED <<snapshotsToMaps, version, mappings, asked, projVars>>

\* The embedding provider reports another root file for an unchanged snapshot.
NewRootFile ==
    /\ \E src \in Sources :
        /\ mapper[src] # <<>>
        /\ \E rootFile \in RootFiles(src) \ {mapper[src][1].rootFile} :
            mapper' = [mapper EXCEPT ![src][1].rootFile = rootFile]
        /\ op' = "newRootFile"
        /\ arg' = RegArg(getUriByPath(src))
        /\ ret' = <<>>
        /\ used' = <<>>
    /\ UNCHANGED <<snapshotsToMaps, version, heap, built, mappings, asked, projVars>>

\* the snapshot object is still held by the embedding provider
referenced(s) ==
    \E src \in Sources : mapper[src] # <<>> /\ mapper[src][1].snapshot = s

\* The WeakMap drops the entry of a snapshot object nothing refers to any more.
Collect ==
    /\ \E s \in DOMAIN snapshotsToMaps :
        /\ ~referenced(s)
        /\ snapshotsToMaps' = [t \in DOMAIN snapshotsToMaps \ {s} |-> snapshotsToMaps[t]]
    /\ op' = "collect"
    /\ ret' = <<>>
    /\ used' = <<>>
    /\ UNCHANGED <<arg, version, heap, built, mapper, mappings, asked, projVars>>

NextReg ==
    \/ Get
    \/ GetTeleport
    \/ GetMap
    \/ Edit
    \/ NewRootFile
    \/ Collect

SpecReg == InitReg /\ [][NextReg]_vars

\* ------------------------------------------------------------ utils/dedupe
\* (from the specification: the first occurrence of each location is kept, in
\* the order of the first occurrences; the call-site ranges of location-equal
\* calls are unioned in source order)
locationKey(item) == <<item.uri, item.range.start, item.range.end>>

\* the items whose key has not occurred before them, in order
RECURSIVE firstOccurrences(_, _, _)
firstOccurrences(i, items, keys) ==
    IF i > Len(items) THEN <<>>
    ELSE (IF \E j \in 1..(i - 1) : keys[j] = keys[i] THEN <<>> ELSE <<items[i]>>)
         \o firstOccurrences(i + 1, items, keys)

\* withLocations that hands the first occurrences back last to first
withLocations_reversed(items) ==
    LET kept == firstOccurrences(1, items, [i \in 1..Len(items) |-> locationKey(items[i])])
    IN  [i \in 1..Len(kept) |-> kept[Len(kept) + 1 - i]]

withLocations(items) ==
    firstOccurrences(1, items, [i \in 1..Len(items) |-> locationKey(items[i])])

\* source order of ranges: by start, then by end
RangeLess(a, b) ==
    \/ PosLess(a.start, b.start)
    \/ a.start = b.start /\ PosLess(a.end, b.end)

RECURSIVE inSourceOrder(_)
inSourceOrder(ranges) ==
    IF ranges = {} THEN <<>>
    ELSE LET least == CHOOSE x \in ranges : \A y \in ranges \ {x} : RangeLess(x, y)
         IN  <<least>> \o inSourceOrder(ranges \ {least})

\* the call-site ranges of the calls of a group, unioned in source order
unionOfFromRanges(calls, group) ==
    inSourceOrder(UNION {{calls[j].fromRanges[k] : k \in 1..Len(calls[j].fromRanges)} :
                            j \in group})

\* the first call of each location, carrying the ranges of its whole group
RECURSIVE mergedCalls(_, _, _)
mergedCalls(i, calls, keys) ==
    IF i > Len(calls) THEN <<>>
    ELSE LET group == {j \in 1..Len(calls) : keys[j] = keys[i]}
         IN  (IF \E j \in 1..(i - 1) : keys[j] = keys[i] THEN <<>>
              ELSE IF Cardinality(group) = 1 THEN <<calls[i]>>
              ELSE <<[calls[i] EXCEPT !.fromRanges = unionOfFromRanges(calls, group)]>>)
             \o mergedCalls(i + 1, calls, keys)

withCallHierarchyIncomingCalls(items) ==
    mergedCalls(1, items, [i \in 1..Len(items) |-> locationKey(items[i].from)])

withCallHierarchyOutgoingCalls(items) ==
    mergedCalls(1, items, [i \in 1..Len(items) |-> locationKey(items[i].to)])

\* ------------------------------------------------- callHierarchy: register
\* the source, its embedded document, and a document that is no virtual file
sourceUri == getUriByPath("/a.vue")

embeddedDocumentUri == getUriByPath("/a.vue.ts")

plainUri == getUriByPath("/c.ts")

\* path.basename, on the file names in use
basename(p) ==
    IF p = "/a.vue.ts" THEN "a.vue.ts"
    ELSE IF p = "/A.vue.ts" THEN "A.vue.ts"
    ELSE IF p = "/a.vue" THEN "a.vue"
    ELSE IF p = "/a.vue.css" THEN "a.vue.css"
    ELSE IF p = "/b.vue" THEN "b.vue"
    ELSE "c.ts"

\* context.plugins; pluginId counts from 0
Plugins == <<[callHierarchy |-> TRUE], [callHierarchy |-> TRUE], [callHierarchy |-> FALSE]>>

\* the range a source document spans: positionAt(0) .. positionAt(getText().length)
wholeDocument(document) ==
    [start |-> positionAt(document, 0), end |-> positionAt(document, document.len)]

\* transformCallHierarchyItem, the item it returns: the item in the source
\* document, given the map and the source ranges found
vueItemOf(tsItem, map, range, selectionRange) ==
    [tsItem EXCEPT
        !.name = IF tsItem.name = basename(getPathOfUri(map.mappedDocument.uri))
                 THEN basename(getPathOfUri(map.sourceDocument.uri))
                 ELSE tsItem.name,
        !.uri = map.sourceDocument.uri,
        !.range = [start |-> range.start, end |-> range.end],
        !.selectionRange = [start |-> selectionRange.start, end |-> selectionRange.end]]

\* tsRanges.map(tsRange => map.toSourceRange(tsRange)).filter(shared.notEmpty)
vueRangesOf(map, tsRanges) ==
    flat([i \in 1..Len(tsRanges) |-> toSourceRange(map, tsRanges[i], "any")])

\* transformCallHierarchyItem through a map that also gives up an item whose
\* range has no source range
transformThrough_strict(map, tsItem, tsRanges, range, selectionRange) ==
    IF range = <<>> \/ selectionRange = <<>> THEN <<>>
    ELSE <<(<<vueItemOf(tsItem, map, range[1], selectionRange[1]),
              vueRangesOf(map, tsRanges)>>)>>

\* transformCallHierarchyItem once the map is found; range and selectionRange
\* are what map.toSourceRange gave for the item's range and selectionRange
transformThrough(map, tsItem, tsRanges, range, selectionRange) ==
    IF selectionRange = <<>> THEN <<>>
    ELSE <<(<<vueItemOf(tsItem, map,
                  IF range # <<>> THEN range[1] ELSE wholeDocument(map.sourceDocument),
                  selectionRange[1]),
              vueRangesOf(map, tsRanges)>>)>>

\* transformCallHierarchyItem that gives up an item of no virtual file
transformFound_dropsPlain(found, tsItem, tsRanges) ==
    IF found = <<>> THEN <<>>
    ELSE transformThrough(found[1], tsItem, tsRanges,
                          toSourceRange(found[1], tsItem.range, "any"),
                          toSourceRange(found[1], tsItem.selectionRange, "any"))

\* transformCallHierarchyItem, given what context.documents.getMap found
transformFound(found, tsItem, tsRanges) ==
    IF found = <<>> THEN <<(<<tsItem, tsRanges>>)>>
    ELSE transformThrough(found[1], tsItem, tsRanges,
                          toSourceRange(found[1], tsItem.range, "any"),
                          toSourceRange(found[1], tsItem.selectionRange, "any"))

\* transformCallHierarchyItem(tsItem, tsRanges): nothing, or <<vueItem, vueRanges>>
transformCallHierarchyItem(tsItem, tsRanges) ==
    transformFound(documentsGetMap(tsItem.uri), tsItem, tsRanges)

\* doPrepare, the plugin callback: every item the plugin prepared gets its data
worker(pluginId, uri, items, map) ==
    [i \in 1..Len(items) |->
        [items[i] EXCEPT !.data =
            <<[uri |-> uri,
               originalItem |-> items[i],
               pluginId |-> pluginId,
               map |-> IF map # <<>>
                       THEN <<[embeddedDocumentUri |-> map[1].mappedDocument.uri]>>
                       ELSE <<>>]>>]]

\* transformCallHierarchyItem(item, [])?.[0], when it is not empty
firstOf(calls) == IF calls = <<>> THEN <<>> ELSE <<calls[1][1]>>

\* doPrepare, the result transform
resultTransform(data, sourceMap) ==
    IF sourceMap = <<>> THEN data
    ELSE flat([i \in 1..Len(data) |-> firstOf(transformCallHierarchyItem(data[i], <<>>))])

\* doPrepare's merge without the dedupe
merge_flatOnly(arr) == flat(arr)

\* doPrepare, the merge: arr => dedupe.withLocations(arr.flat())
merge(arr) == withLocations(flat(arr))

\* what plugin p (counted from 1) prepares: a plugin without callHierarchy
\* prepares nothing
answerOf(p, answers) ==
    IF p <= Len(answers) /\ Plugins[p].callHierarchy THEN answers[p] ELSE <<>>

\* the maps that take the position under the filter of doPrepare
takingOf(maps, offset) ==
    flat([m \in 1..Len(maps) |->
             IF toGeneratedPositions(maps[m], positionAt(maps[m].sourceDocument, offset),
                                     "capable", "left") # <<>>
             THEN <<maps[m]>> ELSE <<>>])

\* every plugin asked once through each of the maps
callsThrough(taking, uri, answers) ==
    flat([m \in 1..Len(taking) |->
             [p \in 1..Len(Plugins) |->
                 [data |-> worker(p - 1, uri, answerOf(p, answers), <<taking[m]>>),
                  map |-> <<taking[m]>>]]])

\* every plugin asked about the document itself
callsDirect(uri, answers) ==
    [p \in 1..Len(Plugins) |->
        [data |-> worker(p - 1, uri, answerOf(p, answers), <<>>), map |-> <<>>]]

\* the maps of the bundle of a source the registry resolved
mapsOf(fileName, source) ==
    getMaps(fileName, source[1], source[2]).result.maps

\* languageFeatureWorker (from the specification): the source is resolved
\* through the registry; without an embedded tree every plugin is asked about
\* the document itself; otherwise every plugin is asked once for every
\* embedded document whose map takes the position under the filter.  Each
\* record is what one plugin prepared and the map it was asked through.
languageFeatureCalls(uri, offset, answers) ==
    IF mapperGet(getPathOfUri(uri)) = <<>>
    THEN callsDirect(uri, answers)
    ELSE callsThrough(takingOf(mapsOf(getPathOfUri(uri), mapperGet(getPathOfUri(uri))),
                               offset),
                      uri, answers)

\* doPrepare(uri, position), the plugins preparing `answers`
transformed(calls) ==
    [i \in 1..Len(calls) |-> resultTransform(calls[i].data, calls[i].map)]

doPrepare(uri, offset, answers) ==
    merge(transformed(languageFeatureCalls(uri, offset, answers)))

\* getIncomingCalls / getOutgoingCalls: the plugin of the item's data exists
\* and has a call hierarchy
pluginOf(data) ==
    /\ data # <<>>
    /\ data[1].pluginId + 1 <= Len(Plugins)
    /\ Plugins[data[1].pluginId + 1].callHierarchy

\* the plugin is asked whatever the registry says of the recorded document
pluginAsked_staleMap(data) ==
    /\ data # <<>>
    /\ data[1].pluginId + 1 <= Len(Plugins)
    /\ Plugins[data[1].pluginId + 1].callHierarchy

\* ... and the plugin is asked for its calls
pluginAsked(data) ==
    /\ pluginOf(data)
    /\ \/ data[1].map = <<>>
       \/ documentsGetMap(data[1].map[1].embeddedDocumentUri) # <<>>

\* the calls of plugin.callHierarchy.onIncomingCalls / onOutgoingCalls one
\* request makes: one in the branch of an item with a recorded map that the
\* registry still has, one in the branch of an item without a map
pluginCalls(method, data) ==
    IF pluginAsked(data)
    THEN <<[pluginId |-> data[1].pluginId, method |-> method]>>
    ELSE <<>>

\* incomingItems.push({ from: calls[0], fromRanges: calls[1] }), unless the
\* transform gave nothing
incomingCall(calls) ==
    IF calls = <<>> THEN <<>>
    ELSE <<[from |-> calls[1][1], fromRanges |-> calls[1][2]]>>

\* the loop of getIncomingCalls over the calls the plugin answers
RECURSIVE pushIncoming(_)
pushIncoming(_calls) ==
    IF _calls = <<>> THEN <<>>
    ELSE incomingCall(transformCallHierarchyItem(Head(_calls).from, Head(_calls).fromRanges))
         \o pushIncoming(Tail(_calls))

\* incomingItems when getIncomingCalls reaches its return
incomingItems(data, _calls) ==
    IF pluginAsked(data) THEN pushIncoming(_calls) ELSE <<>>

\* getIncomingCalls that returns incomingItems as collected
getIncomingCalls_undeduped(data, _calls) ==
    incomingItems(data, _calls)

getIncomingCalls(data, _calls) ==
    withCallHierarchyIncomingCalls(incomingItems(data, _calls))

\* items.push({ to: calls[0], fromRanges: calls[1] }), unless the transform
\* gave nothing
outgoingCall(calls) ==
    IF calls = <<>> THEN <<>>
    ELSE <<[to |-> calls[1][1], fromRanges |-> calls[1][2]]>>

\* the loop of getOutgoingCalls
RECURSIVE pushOutgoing(_)
pushOutgoing(_calls) ==
    IF _calls = <<>> THEN <<>>
    ELSE outgoingCall(transformCallHierarchyItem(Head(_calls).to, Head(_calls).fromRanges))
         \o pushOutgoing(Tail(_calls))

outgoingItems(data, _calls) ==
    IF pluginAsked(data) THEN pushOutgoing(_calls) ELSE <<>>

getOutgoingCalls(data, _calls) ==
    withCallHierarchyOutgoingCalls(outgoingItems(data, _calls))

\* ---------------------------------------------------- autoInsert: register
\* "if (range) { data.range = range; return data; }"
ranged(data, range) ==
    IF range # <<>> THEN <<[data EXCEPT !.range = range[1]]>> ELSE <<>>

\* a plugin answers a string, as [text |-> s], or a TextEdit [range, newText]
autoInsertTransform(data, map) ==
    IF "text" \in DOMAIN data THEN <<data>>
    ELSE ranged(data, toSourceRange(map, data.range, "any"))

\* documentArgFeatureWorker (from the specification) for one embedded document:
\* the plugin is asked when the map takes the position under the filter, and
\* its answer goes through the result transform
doAutoInsert(map, offset, answer) ==
    IF /\ toGeneratedPositions(map, positionAt(map.sourceDocument, offset),
                               "capable", "left") # <<>>
       /\ answer # <<>>
    THEN autoInsertTransform(answer[1], map)
    ELSE <<>>

\* ------------------------------------- the language service under requests
\* the tables of the embedded document "/a.vue.ts": one entry; two generated
\* ranges of one source range; the whole text; an entry without the
\* capability the position filters ask for; nothing mapped
EmbeddedTables ==
    {OneMapping,
     <<[sourceRange |-> <<0, 1>>, generatedRange |-> <<0, 1>>, data |-> TRUE],
       [sourceRange |-> <<0, 1>>, generatedRange |-> <<1, 2>>, data |-> TRUE]>>,
     <<[sourceRange |-> <<0, 2>>, generatedRange |-> <<0, 2>>, data |-> TRUE]>>,
     <<[sourceRange |-> <<0, 1>>, generatedRange |-> <<1, 2>>, data |-> FALSE]>>,
     <<>>}

\* a range of the one-line embedded document, from its offsets
lineRange(r) ==
    [start |-> [line |-> 0, character |-> r[1]],
     end |-> [line |-> 0, character |-> r[2]]]

\* the ranges plugins report: two in mapped text, one (at the end of the
\* embedded text) in generated boilerplate no table maps
PluginRanges == {lineRange(<<0, 1>>), lineRange(<<1, 2>>), lineRange(<<3, 3>>)}

CallHierarchyItem(name, uri, range, selectionRange) ==
    [name |-> name, uri |-> uri, range |-> range, selectionRange |-> selectionRange,
     data |-> <<>>]

\* the items plugins report
Items ==
    {CallHierarchyItem("f", embeddedDocumentUri, lineRange(<<0, 1>>), lineRange(<<1, 2>>)),
     CallHierarchyItem("a.vue.ts", embeddedDocumentUri, lineRange(<<1, 2>>), lineRange(<<1, 2>>)),
     CallHierarchyItem("g", embeddedDocumentUri, lineRange(<<3, 3>>), lineRange(<<1, 2>>)),
     CallHierarchyItem("h", embeddedDocumentUri, lineRange(<<1, 2>>), lineRange(<<3, 3>>)),
     CallHierarchyItem("k", plainUri, lineRange(<<0, 1>>), lineRange(<<0, 1>>))}

\* the call-site ranges of one call
FromRanges == {<<>>} \cup {<<r>> : r \in PluginRanges}

\* sequences of at most n elements of S
SeqsUpTo(S, n) == UNION {[1..k -> S] : k \in 0..n}

\* the data an item handed back by the client may carry
ItemData ==
    {<<>>}
    \cup {<<[pluginId |-> p, map |-> m]>> :
             p \in 0..Len(Plugins),
             m \in {<<>>, <<[embeddedDocumentUri |-> embeddedDocumentUri]>>,
                    <<[embeddedDocumentUri |-> plainUri]>>}}

\* doPrepare requests: the document, the offset of the position, and what the
\* first and the second plugin prepare
PrepareArgs ==
    {[api |-> "doPrepare", uri |-> u, position |-> o,
      answers |-> <<SubSeq(l, 1, Min(k, Len(l))), SubSeq(l, Min(k, Len(l)) + 1, Len(l))>>] :
        u \in {sourceUri, plainUri}, o \in {0, 2},
        l \in SeqsUpTo(Items, MaxItems), k \in 0..MaxItems}

\* getIncomingCalls / getOutgoingCalls requests: the data of the item, and the
\* calls the plugin answers (item is the caller, or the callee)
CallArgs ==
    {[api |-> "calls", data |-> d, calls |-> c] :
        d \in {<<[pluginId |-> 0, map |-> <<[embeddedDocumentUri |-> embeddedDocumentUri]>>]>>},
        c \in SeqsUpTo([item : Items, fromRanges : FromRanges], MaxCalls)}
    \cup
    {[api |-> "calls", data |-> d, calls |-> c] :
        d \in ItemData, c \in SeqsUpTo([item : Items, fromRanges : FromRanges], 1)}

\* auto-insert requests: the offset of the position and the plugin's answer
AutoInsertArgs ==
    {[api |-> "doAutoInsert", position |-> o, answer |-> a] :
        o \in {0, 2},
        a \in {<<>>, <<[text |-> "$0"]>>}
              \cup {<<[range |-> r, newText |-> "$0"]>> : r \in PluginRanges}}

\* the source "/a.vue" is open, its embedded document is mapped by `mappings`
InitCalls ==
    /\ mappings \in EmbeddedTables
    /\ arg \in PrepareArgs \cup CallArgs \cup AutoInsertArgs
    /\ op = "new"
    /\ ret = <<>>
    /\ version = 0
    /\ snapshotsToMaps = <<>>
    /\ heap = <<[id |-> "two lines", len |-> 3, lineOffsets |-> <<0, 1>>]>>
    /\ mapper = [src \in Sources |->
                    IF src = "/a.vue"
                    THEN <<[snapshot |-> 1,
                            rootFile |-> VirtualFile("/a.vue", <<>>, <<>>,
                                <<VirtualFile("/a.vue.ts", mappings, <<>>, <<>>)>>)]>>
                    ELSE <<>>]
    /\ used = <<>>
    /\ built = <<(<<>>)>>
    /\ asked = <<>>
    /\ NoProject

\* the registry after a request that went through getMaps with these outcomes
\* (all of one snapshot), or with none
AfterLookUps(outcomes) ==
    IF outcomes # {}
    THEN AfterGetMaps(CHOOSE r \in outcomes : TRUE)
    ELSE /\ used' = <<>>
         /\ UNCHANGED <<snapshotsToMaps, version, built, mapper, heap, mappings>>

\* the outcome of getMaps for a source uri, as a set
resolved(uri) ==
    {r[1] : r \in {getMapsOf(IF mapperGet(getPathOfUri(uri)) # <<>>
                             THEN <<getPathOfUri(uri)>> \o mapperGet(getPathOfUri(uri))
                             ELSE <<>>)} \ {<<>>}}

\* the outcomes of getMaps for the virtual files a request asks about
resolvedFiles(virtualFiles) ==
    {r[1] : r \in {getMapResult(u) : u \in virtualFiles} \ {<<>>}}

\* the virtual files getIncomingCalls / getOutgoingCalls ask the registry about
lookedUp(data, calls) ==
    (IF pluginOf(data) /\ data[1].map # <<>>
     THEN {data[1].map[1].embeddedDocumentUri} ELSE {})
    \cup (IF pluginAsked(data) THEN {calls[i].item.uri : i \in 1..Len(calls)} ELSE {})

\* the calls a plugin answers, as incoming and as outgoing calls
asIncoming(calls) ==
    [i \in 1..Len(calls) |-> [from |-> calls[i].item, fromRanges |-> calls[i].fromRanges]]

asOutgoing(calls) ==
    [i \in 1..Len(calls) |-> [to |-> calls[i].item, fromRanges |-> calls[i].fromRanges]]

DoPrepare ==
    /\ op = "new"
    /\ arg.api = "doPrepare"
    /\ op' = "doPrepare"
    /\ ret' = doPrepare(arg.uri, arg.position, arg.answers)
    /\ AfterLookUps(resolved(arg.uri))
    /\ UNCHANGED <<arg, asked, projVars>>

GetIncomingCalls ==
    /\ op = "new"
    /\ arg.api = "calls"
    /\ op' = "getIncomingCalls"
    /\ ret' = getIncomingCalls(arg.data, asIncoming(arg.calls))
    /\ asked' = pluginCalls("onIncomingCalls", arg.data)
    /\ AfterLookUps(resolvedFiles(lookedUp(arg.data, arg.calls)))
    /\ UNCHANGED <<arg, projVars>>

GetOutgoingCalls ==
    /\ op = "new"
    /\ arg.api = "calls"
    /\ op' = "getOutgoingCalls"
    /\ ret' = getOutgoingCalls(arg.data, asOutgoing(arg.calls))
    /\ asked' = pluginCalls("onOutgoingCalls", arg.data)
    /\ AfterLookUps(resolvedFiles(lookedUp(arg.data, arg.calls)))
    /\ UNCHANGED <<arg, projVars>>

DoAutoInsert ==
    /\ op = "new"
    /\ arg.api = "doAutoInsert"
    /\ op' = "doAutoInsert"
    /\ ret' = doAutoInsert(theMap, arg.position, arg.answer)
    /\ UNCHANGED <<mappings, arg, regVars, asked, projVars>>

NextCalls ==
    \/ DoPrepare
    \/ GetIncomingCalls
    \/ GetOutgoingCalls
    \/ DoAutoInsert

SpecCalls == InitCalls /\ [][NextCalls]_vars

\* ----------------------------------------------------------- createProject
\* Events in one notification of the file watcher.
MaxChanges == 2
\* Largest projectVersion the watcher is followed to.
MaxProjectVersion == 4
\* Script versions are followed down to -MaxScriptVersion.
MaxScriptVersion == 3
\* Most snapshot objects getScriptSnapshot creates.
MaxReads == 3

\* the files of the workspace, and the texts a file may hold
ProjectFiles == {"/x.ts", "/y.ts"}

FileTexts == {"a", "bb"}

\* sys.getFileSize, from the text on disk
getFileSize(text) == IF text = "a" THEN 1 ELSE IF text = "bb" THEN 2 ELSE 0

\* Number.prototype.toString, of the integers of one digit
toString(n) ==
    LET digit(d) == <<"0", "1", "2", "3", "4", "5", "6", "7", "8", "9">>[d + 1]
    IN  IF n < 0 THEN "-" \o digit(0 - n) ELSE digit(n)

\* ts.ScriptSnapshot.fromString(text): the k-th snapshot object created
fromString(k, text) == [id |-> k, text |-> text]

\* an open document: documents.data.pathGet(fileName)
openDocument == [version |-> 1, snapshot |-> [id |-> 0, text |-> "open"]]

\* createProject(params): no script is tracked; `files` is the disk (nothing,
\* or <<text>>), `documents` the files with an open document ("/y.ts" is
\* open in the editor, "/x.ts" is not), maxFileSize
\* the option of initOptions (nothing, or <<bytes>>), `allocated` the number
\* of snapshot objects created so far
InitProject ==
    /\ \E maxFileSize \in {<<>>, <<1>>} :
          project = [scripts |-> [f \in ProjectFiles |-> <<>>],
                     projectVersion |-> 0,
                     typeRootVersion |-> 0,
                     files |-> [f \in ProjectFiles |-> <<"a">>],
                     documents |-> {"/y.ts"},
                     maxFileSize |-> maxFileSize,
                     allocated |-> 0]
    /\ history = [f \in ProjectFiles |-> [versions |-> {}, eventSinceRead |-> FALSE]]
    /\ op = "new"
    /\ arg = <<>>
    /\ ret = <<>>
    /\ mappings = <<>>
    /\ asked = <<>>
    /\ InitRegistry

\* onWorkspaceFilesChanged, a Changed or Created event of a tracked script:
\* the script with its new version
bumped(script) ==
    [script EXCEPT !.version = IF script.version >= 0 THEN -1 ELSE script.version - 1]

\* onWorkspaceFilesChanged, the loop over the changes: the project and the
\* history after it
RECURSIVE forChanges(_, _, _)
forChanges(changes, p, h) ==
    IF changes = <<>> THEN [project |-> p, history |-> h]
    ELSE IF p.scripts[Head(changes).uri] = <<>>
    THEN forChanges(Tail(changes), p, h)
    ELSE IF Head(changes).type \in {"Changed", "Created"}
    THEN forChanges(Tail(changes),
             [p EXCEPT !.scripts[Head(changes).uri] = <<bumped(@[1])>>,
                       !.projectVersion = @ + 1],
             [h EXCEPT ![Head(changes).uri] =
                 [versions |-> @.versions
                                  \cup {bumped(p.scripts[Head(changes).uri][1]).version},
                  eventSinceRead |-> TRUE]])
    ELSE forChanges(Tail(changes),
             [p EXCEPT !.scripts[Head(changes).uri] = <<>>,
                       !.projectVersion = @ + 1],
             h)

\* onWorkspaceFilesChanged(changes)
onWorkspaceFilesChanged(changes, p, h) ==
    IF \E i \in 1..Len(changes) : changes[i].type \in {"Created", "Deleted"}
    THEN [forChanges(changes, p, h) EXCEPT !.project.projectVersion = @ + 1,
                                           !.project.typeRootVersion = @ + 1]
    ELSE forChanges(changes, p, h)

\* getScriptVersion(fileName)
getScriptVersion(p, fileName) ==
    IF fileName \in p.documents THEN toString(openDocument.version)
    ELSE IF p.scripts[fileName] # <<>> THEN toString(p.scripts[fileName][1].version)
    ELSE ""

\* getScriptSnapshot, the file was read: the snapshot is kept in the script
\* entry, or a new entry is made
snapshotRead(p, h, fileName, snapshot) ==
    [result |-> <<snapshot>>,
     project |->
         [p EXCEPT !.allocated = @ + 1,
                   !.scripts[fileName] =
                       IF @ # <<>>
                       THEN <<[@[1] EXCEPT !.snapshot = snapshot,
                                           !.snapshotVersion =
                                               p.scripts[fileName][1].version]>>
                       ELSE <<[version |-> -1, fileName |-> fileName,
                               snapshot |-> snapshot, snapshotVersion |-> -1]>>],
     history |->
         [h EXCEPT ![fileName] =
             [versions |-> @.versions
                              \cup {IF p.scripts[fileName] # <<>>
                                    THEN p.scripts[fileName][1].version ELSE -1},
              eventSinceRead |-> FALSE]]]

\* getScriptSnapshot(fileName); text is what sys.readFile answers (nothing,
\* or <<text>>).  The result is nothing or <<snapshot>>.
getScriptSnapshot(p, h, fileName, text) ==
    IF fileName \in p.documents
    THEN [result |-> <<openDocument.snapshot>>, project |-> p, history |-> h]
    ELSE IF /\ p.scripts[fileName] # <<>>
            /\ p.scripts[fileName][1].snapshotVersion = p.scripts[fileName][1].version
    THEN [result |-> <<p.scripts[fileName][1].snapshot>>, project |-> p, history |-> h]
    ELSE IF p.files[fileName] = <<>>
    THEN [result |-> <<>>, project |-> p, history |-> h]
    ELSE IF /\ p.maxFileSize # <<>>
            /\ getFileSize(p.files[fileName][1]) > p.maxFileSize[1]
    THEN [result |-> <<fromString(p.allocated + 1, "")>>,
          project |-> [p EXCEPT !.allocated = @ + 1], history |-> h]
    ELSE IF text = <<>>
    THEN [result |-> <<>>, project |-> p, history |-> h]
    ELSE snapshotRead(p, h, fileName, fromString(p.allocated + 1, text[1]))

\* the events of the file watcher
FileEvents == [uri : ProjectFiles, type : {"Created", "Changed", "Deleted"}]

\* the versions of the tracked scripts and projectVersion have room for the
\* events of one more notification
roomFor(changes) ==
    /\ onWorkspaceFilesChanged(changes, project, history).project.projectVersion
           <= MaxProjectVersion
    /\ \A f \in ProjectFiles :
          project.scripts[f] # <<>> =>
              project.scripts[f][1].version - Len(changes) >= 0 - MaxScriptVersion

\* fileSystemHost.onDidChangeWatchedFiles(params => onWorkspaceFilesChanged(params.changes))
OnWorkspaceFilesChanged ==
    /\ \E changes \in SeqsUpTo(FileEvents, MaxChanges) :
          /\ roomFor(changes)
          /\ op' = "onWorkspaceFilesChanged"
          /\ arg' = [changes |-> changes]
          /\ project' = onWorkspaceFilesChanged(changes, project, history).project
          /\ history' = onWorkspaceFilesChanged(changes, project, history).history
    /\ ret' = <<>>
    /\ UNCHANGED <<mappings, regVars, asked>>

\* documents.onDidChangeContent
OnDidChangeContent ==
    /\ project.projectVersion < MaxProjectVersion
    /\ op' = "onDidChangeContent"
    /\ arg' = <<>>
    /\ ret' = <<>>
    /\ project' = [project EXCEPT !.projectVersion = @ + 1]
    /\ UNCHANGED <<mappings, regVars, asked, history>>

\* languageServiceHost.getScriptVersion(fileName)
GetScriptVersion ==
    /\ \E fileName \in ProjectFiles :
          /\ op' = "getScriptVersion"
          /\ arg' = [fileName |-> fileName]
          /\ ret' = <<getScriptVersion(project, fileName)>>
    /\ UNCHANGED <<mappings, regVars, asked, projVars>>

\* what sys.readFile may answer for a file
readFile(fileName) == {<<>>} \cup {project.files[fileName]}

\* languageServiceHost.getScriptSnapshot(fileName)
GetScriptSnapshot ==
    /\ project.allocated < MaxReads
    /\ \E fileName \in ProjectFiles :
          \E text \in readFile(fileName) :
              /\ op' = "getScriptSnapshot"
              /\ arg' = [fileName |-> fileName]
              /\ ret' = getScriptSnapshot(project, history, fileName, text).result
              /\ project' = getScriptSnapshot(project, history, fileName, text).project
              /\ history' = getScriptSnapshot(project, history, fileName, text).history
    /\ UNCHANGED <<mappings, regVars, asked>>

\* the disk: a file is written or removed; the watcher reports it later, or
\* not at all
WriteFile ==
    /\ \E fileName \in ProjectFiles :
          \E text \in {<<>>} \cup {<<t>> : t \in FileTexts} :
              /\ text # project.files[fileName]
              /\ project' = [project EXCEPT !.files[fileName] = text]
              /\ arg' = [fileName |-> fileName]
    /\ op' = "writeFile"
    /\ ret' = <<>>
    /\ UNCHANGED <<mappings, regVars, asked, history>>

NextProject ==
    \/ OnWorkspaceFilesChanged
    \/ OnDidChangeContent
    \/ GetScriptVersion
    \/ GetScriptSnapshot
    \/ WriteFile

SpecProject == InitProject /\ [][NextProject]_vars

\* ===================================================================== C1
\* C1: every range returned by toSourceRange / toGeneratedRange, and every
\* element of toSourceRanges / toGeneratedRanges, has end >= start, for every
\* table, filter and input range with start <= end (an inverted pairing of the
\* fallback phase is discarded).
RangeOps == {"toSourceRange", "toGeneratedRange", "toSourceRanges", "toGeneratedRanges"}

C1_NeverInverted ==
    op \in RangeOps => \A i \in 1..Len(ret) : ~PosLess(ret[i].end, ret[i].start)

\* ===================================================================== C2
\* entries i and j of the table are adjacent at source offset B: i's source
\* range ends at B, j's starts at B, neither is empty
AdjacentInSource(i, j, B) ==
    /\ i # j
    /\ mappings[i].sourceRange[1] < B /\ mappings[i].sourceRange[2] = B
    /\ mappings[j].sourceRange[1] = B /\ mappings[j].sourceRange[2] > B

AdjacentInGenerated(i, j, B) ==
    /\ i # j
    /\ mappings[i].generatedRange[1] < B /\ mappings[i].generatedRange[2] = B
    /\ mappings[j].generatedRange[1] = B /\ mappings[j].generatedRange[2] > B

StrictlyInside(k, r) == r[1] < k /\ k < r[2]

SameLength(m) ==
    m.sourceRange[2] - m.sourceRange[1] = m.generatedRange[2] - m.generatedRange[1]

\* The round trip of offset arg.start, for the entries that satisfy Cond:
\* the first translation produces a result and the translation back, through
\* the same entry with the same bias, is the original position.
RoundTrip(Cond(_)) ==
    /\ op = "matchGeneratedPosition"
         /\ StrictlyInside(arg.start, mappings[arg.entry].sourceRange)
         /\ Cond(mappings[arg.entry])
       => ret # <<>>
    /\ op = "matchGeneratedPosition.matchSourcePosition"
         /\ StrictlyInside(arg.start, mappings[arg.entry].sourceRange)
         /\ Cond(mappings[arg.entry])
       => ret = <<positionAt(sourceDocument, arg.start)>>
    /\ op = "matchSourcePosition"
         /\ StrictlyInside(arg.start, mappings[arg.entry].generatedRange)
         /\ Cond(mappings[arg.entry])
       => ret # <<>>
    /\ op = "matchSourcePosition.matchGeneratedPosition"
         /\ StrictlyInside(arg.start, mappings[arg.entry].generatedRange)
         /\ Cond(mappings[arg.entry])
       => ret = <<positionAt(mappedDocument, arg.start)>>
    /\ op = "toGeneratedPositionsBase" =>
        \A i \in 1..Len(mappings) :
            ( /\ StrictlyInside(arg.start, mappings[i].sourceRange)
              /\ filter(arg.filter, mappings[i].data)
              /\ Cond(mappings[i]) )
            => \E j \in 1..Len(ret) : ret[j][2] = i
    /\ op = "toGeneratedPositionsBase.toSourcePositionsBase"
         /\ StrictlyInside(arg.start, mappings[arg.entry].sourceRange)
         /\ Cond(mappings[arg.entry])
       => ret = <<positionAt(sourceDocument, arg.start)>>
    /\ op = "toSourcePositionsBase" =>
        \A i \in 1..Len(mappings) :
            ( /\ StrictlyInside(arg.start, mappings[i].generatedRange)
              /\ filter(arg.filter, mappings[i].data)
              /\ Cond(mappings[i]) )
            => \E j \in 1..Len(ret) : ret[j][2] = i
    /\ op = "toSourcePositionsBase.toGeneratedPositionsBase"
         /\ StrictlyInside(arg.start, mappings[arg.entry].generatedRange)
         /\ Cond(mappings[arg.entry])
       => ret = <<positionAt(mappedDocument, arg.start)>>

AnyEntry(m) == TRUE

\* C3 as claimed: for any entry, also one whose source and generated ranges
\* have different lengths, and any offset k strictly inside its source range,
\* k translates to the generated document and the result translates back,
\* through the same entry with the same bias, to k; symmetrically from the
\* generated range.
C3_RoundTripAnyEntry == RoundTrip(AnyEntry)

\* C3 as amended: the round trip returns k for the entries whose source and
\* generated ranges have the same length.
C3_RoundTripSameLength == RoundTrip(SameLength)

\* a round trip that started at a different offset than it maps to: the entry
\* shifts, the offset is strictly inside, and the way back returned it
C3_Witness ==
    /\ op \in {"matchGeneratedPosition.matchSourcePosition",
               "toGeneratedPositionsBase.toSourcePositionsBase"}
    /\ StrictlyInside(arg.start, mappings[arg.entry].sourceRange)
    /\ SameLength(mappings[arg.entry])
    /\ mappings[arg.entry].sourceRange[1] # mappings[arg.entry].generatedRange[1]
    /\ arg.baseOffset = "right"
    /\ ret = <<positionAt(sourceDocument, arg.start)>>

\* ===================================================================== C9
\* offset k lies at or between the ends of range r
Inside(k, r) == r[1] <= k /\ k <= r[2]

\* findTeleports(arg.start), for the teleport entries that satisfy Cond: a
\* position in rangeA yields a position inside rangeB with the A->B
\* capabilities, a position in rangeB yields a position inside rangeA with
\* the B->A capabilities, and the entry yields nothing else.
TeleportsRight(Cond(_)) ==
    op = "findTeleports" =>
        /\ \A i \in 1..Len(mappings) :
            Cond(mappings[i]) =>
                /\ Inside(arg.start, mappings[i].sourceRange) =>
                     \E j \in 1..Len(ret) :
                        /\ ret[j].entry = i /\ ret[j].loop = "toGenerated"
                        /\ ret[j].capabilities = mappings[i].data.toGenedCapabilities
                        /\ Inside(offsetAt(mappedDocument, ret[j].position),
                                  mappings[i].generatedRange)
                /\ Inside(arg.start, mappings[i].generatedRange) =>
                     \E j \in 1..Len(ret) :
                        /\ ret[j].entry = i /\ ret[j].loop = "toSource"
                        /\ ret[j].capabilities = mappings[i].data.toSourceCapabilities
                        /\ Inside(offsetAt(mappedDocument, ret[j].position),
                                  mappings[i].sourceRange)
        /\ \A j \in 1..Len(ret) :
            LET m == mappings[ret[j].entry]
            IN  Cond(m) =>
                  IF ret[j].loop = "toGenerated"
                  THEN /\ Inside(arg.start, m.sourceRange)
                       /\ ret[j].capabilities = m.data.toGenedCapabilities
                       /\ Inside(offsetAt(mappedDocument, ret[j].position), m.generatedRange)
                  ELSE /\ Inside(arg.start, m.generatedRange)
                       /\ ret[j].capabilities = m.data.toSourceCapabilities
                       /\ Inside(offsetAt(mappedDocument, ret[j].position), m.sourceRange)
        /\ \A i \in 1..Len(mappings) :
            Cond(mappings[i]) =>
                Cardinality({j \in 1..Len(ret) : ret[j].entry = i}) =
                    (IF Inside(arg.start, mappings[i].sourceRange) THEN 1 ELSE 0)
                    + (IF Inside(arg.start, mappings[i].generatedRange) THEN 1 ELSE 0)

\* C9 as claimed: for every teleport entry (rangeA, rangeB, capsA->B,
\* capsB->A) and every position p, p in rangeA yields a position inside rangeB
\* with capsA->B, p in rangeB yields a position inside rangeA with capsB->A
\* (never capsA->B), and a position in neither range yields nothing for the
\* entry.
C9_TeleportsAnyEntry == TeleportsRight(AnyEntry)

\* C9 as amended: the same, for the teleport entries whose two ranges have
\* the same length.
C9_TeleportsSameLength == TeleportsRight(SameLength)

\* a position of rangeB only, in an entry of two equally long, different
\* ranges with different capabilities per direction: one result, B->A
C9_Witness ==
    /\ op = "findTeleports"
    /\ Len(mappings) >= 1
    /\ SameLength(mappings[1])
    /\ mappings[1].sourceRange[1] < mappings[1].sourceRange[2]
    /\ Inside(arg.start, mappings[1].generatedRange)
    /\ ~Inside(arg.start, mappings[1].sourceRange)
    /\ mappings[1].data.toGenedCapabilities # mappings[1].data.toSourceCapabilities
    /\ \E j \in 1..Len(ret) :
        /\ ret[j].entry = 1
        /\ ret[j].capabilities = mappings[1].data.toSourceCapabilities
        /\ Inside(offsetAt(mappedDocument, ret[j].position), mappings[1].sourceRange)

\* ===================================================================== C4
RegistryCalls == {"get", "getMap", "getTeleport"}

\* C4: after any sequence of edits and newly reported root files interleaved
\* with get / getMap / getTeleport, the bundle a call goes through is the one
\* of the snapshot object the embedding provider reports for that source at
\* the time of the call, and its source document has that snapshot's text; a
\* bundle built from an earlier snapshot of the source is never returned.
C4_NeverStale ==
    (op \in RegistryCalls /\ used # <<>>) =>
        LET bundle == used[1]
        IN  /\ mapper[bundle.fileName] # <<>>
            /\ bundle.snapshot = mapper[bundle.fileName][1].snapshot
            /\ bundle.document.text = heap[mapper[bundle.fileName][1].snapshot].id

\* a call returns the bundle of the second snapshot of a source while the
\* bundle of its first snapshot is still cached
C4_Witness ==
    /\ op \in RegistryCalls
    /\ used # <<>>
    /\ \E s \in DOMAIN snapshotsToMaps :
          /\ s # used[1].snapshot
          /\ snapshotsToMaps[s].fileName = used[1].fileName
          /\ snapshotsToMaps[s].document.text # used[1].document.text

\* ===================================================================== C5
\* C5: the bundle of a snapshot object is built at most once; the bundle
\* cached for a snapshot is the one that was built for it, unmodified by every
\* later build; every call that resolves to the snapshot goes through that
\* bundle, and the map getMap / getTeleport returns is one of its objects.
C5_BuiltOnce ==
    /\ \A s \in 1..Len(built) : Len(built[s]) <= 1
    /\ \A s \in DOMAIN snapshotsToMaps : built[s] = <<snapshotsToMaps[s]>>
    /\ (op \in RegistryCalls /\ used # <<>>) =>
          /\ built[used[1].snapshot] = <<used[1]>>
          /\ (op = "get" => ret = used)
          /\ (op = "getMap" /\ ret # <<>> =>
                \E i \in 1..Len(used[1].maps) : used[1].maps[i] = ret[1])
          /\ (op = "getTeleport" /\ ret # <<>> =>
                \E i \in 1..Len(used[1].teleports) : used[1].teleports[i] = ret[1])

\* getMap answers from the bundle of the first snapshot, built before the
\* bundle of another snapshot that is cached beside it
C5_Witness ==
    /\ op = "getMap"
    /\ ret # <<>>
    /\ used # <<>>
    /\ \E s \in DOMAIN snapshotsToMaps :
          /\ s # used[1].snapshot
          /\ snapshotsToMaps[s].document.version > used[1].document.version

\* ===================================================================== C6
CallsOps == {"getIncomingCalls", "getOutgoingCalls"}

\* the caller of an incoming call, the callee of an outgoing call
itemOf(call) == IF "from" \in DOMAIN call THEN call.from ELSE call.to

\* the calls the request collected before its dedupe
collectedCalls ==
    IF op = "getIncomingCalls"
    THEN incomingItems(arg.data, asIncoming(arg.calls))
    ELSE outgoingItems(arg.data, asOutgoing(arg.calls))

\* the collected calls whose item is location-equal to the item of a call
groupOf(xs, call) ==
    {i \in 1..Len(xs) : locationKey(itemOf(xs[i])) = locationKey(itemOf(call))}

\* C6: getIncomingCalls / getOutgoingCalls return one call for each location
\* of a collected caller / callee; no call-site range of a collected call is
\* missing from the call returned for its item; and when two or more collected
\* calls are location-equal, the fromRanges of the call returned are exactly
\* the ranges of those calls, each once, in source order.
C6_MergedCalls ==
    op \in CallsOps =>
        LET xs == collectedCalls
        IN  /\ \A j1, j2 \in 1..Len(ret) :
                  j1 # j2 => locationKey(itemOf(ret[j1])) # locationKey(itemOf(ret[j2]))
            /\ \A i \in 1..Len(xs) :
                  \E j \in 1..Len(ret) :
                      /\ i \in groupOf(xs, ret[j])
                      /\ \A k \in 1..Len(xs[i].fromRanges) :
                            \E n \in 1..Len(ret[j].fromRanges) :
                                ret[j].fromRanges[n] = xs[i].fromRanges[k]
            /\ \A j \in 1..Len(ret) :
                  /\ groupOf(xs, ret[j]) # {}
                  /\ Cardinality(groupOf(xs, ret[j])) >= 2 =>
                        /\ \A n1, n2 \in 1..Len(ret[j].fromRanges) :
                              n1 < n2 => RangeLess(ret[j].fromRanges[n1], ret[j].fromRanges[n2])
                        /\ \A n \in 1..Len(ret[j].fromRanges) :
                              \E i \in groupOf(xs, ret[j]) :
                                  \E k \in 1..Len(xs[i].fromRanges) :
                                      xs[i].fromRanges[k] = ret[j].fromRanges[n]

\* two collected incoming calls of one caller are returned as one call with
\* both call sites, the site of the first call being the later one in the source
C6_Witness ==
    /\ op = "getIncomingCalls"
    /\ Len(collectedCalls) = 2
    /\ Len(ret) = 1
    /\ Len(ret[1].fromRanges) = 2
    /\ collectedCalls[1].fromRanges = <<ret[1].fromRanges[2]>>
    /\ collectedCalls[2].fromRanges = <<ret[1].fromRanges[1]>>

\* ===================================================================== C7
\* the list doPrepare's merge hands to withLocations
collected ==
    flat(transformed(languageFeatureCalls(arg.uri, arg.position, arg.answers)))

\* where a location occurs first in a list
firstIndex(xs, key) ==
    CHOOSE i \in 1..Len(xs) :
        /\ locationKey(xs[i]) = key
        /\ \A j \in 1..(i - 1) : locationKey(xs[j]) # key

\* C7: what doPrepare returns is, of the list its merge collected, exactly the
\* first occurrence of each (uri, start, end) key, in the order of those first
\* occurrences: every key of the list occurs once in the result, and no item of
\* the result has a key the list does not have.
C7_FirstOccurrences ==
    op = "doPrepare" =>
        LET xs == collected
        IN  /\ \A i \in 1..Len(xs) :
                  Cardinality({j \in 1..Len(ret) :
                                  locationKey(ret[j]) = locationKey(xs[i])}) = 1
            /\ \A j \in 1..Len(ret) :
                  /\ \E i \in 1..Len(xs) : locationKey(xs[i]) = locationKey(ret[j])
                  /\ ret[j] = xs[firstIndex(xs, locationKey(ret[j]))]
            /\ \A j1, j2 \in 1..Len(ret) :
                  j1 < j2 => firstIndex(xs, locationKey(ret[j1]))
                                 < firstIndex(xs, locationKey(ret[j2]))

\* three items were collected, the third at the location of the first but a
\* different item; the first and the second are returned
C7_Witness ==
    /\ op = "doPrepare"
    /\ Len(collected) = 3
    /\ locationKey(collected[1]) = locationKey(collected[3])
    /\ collected[1] # collected[3]
    /\ ret = <<collected[1], collected[2]>>

\* ===================================================================== C8
\* C8: withLocations applied to its own output gives that output again, same
\* length and same order: for what doPrepare returns, and for the list its
\* merge collected.
C8_Idempotent ==
    op = "doPrepare" =>
        /\ withLocations(ret) = ret
        /\ withLocations(withLocations(collected)) = withLocations(collected)

\* a result of two items at different locations, after a duplicate was dropped
C8_Witness ==
    /\ op = "doPrepare"
    /\ Len(collected) = 3
    /\ locationKey(collected[1]) = locationKey(collected[2])
    /\ Len(ret) = 2
    /\ withLocations(ret) = ret

\* ==================================================================== C10
HierarchyOps == {"doPrepare", "getIncomingCalls", "getOutgoingCalls"}

\* the items the request handed to its transform; viaMap: through a source map
rawOf(calls) ==
    flat([c \in 1..Len(calls) |->
             [i \in 1..Len(calls[c].data) |->
                 [item |-> calls[c].data[i], viaMap |-> calls[c].map # <<>>]]])

rawItems ==
    IF op = "doPrepare"
    THEN rawOf(languageFeatureCalls(arg.uri, arg.position, arg.answers))
    ELSE IF pluginAsked(arg.data)
    THEN [i \in 1..Len(arg.calls) |-> [item |-> arg.calls[i].item, viaMap |-> TRUE]]
    ELSE <<>>

\* the items of the result
outItems ==
    IF op = "doPrepare" THEN ret ELSE [j \in 1..Len(ret) |-> itemOf(ret[j])]

\* the item is located in an embedded document
embedded(raw) == raw.viaMap /\ documentsGetMap(raw.item.uri) # <<>>

\* the source range of a range of the item's document, through the owning map
sourceRangeOf(raw, range) ==
    toSourceRange(documentsGetMap(raw.item.uri)[1], range, "any")

\* the range the item has in the source document: its source range, or the
\* whole source document when its range has none
rangeInSource(raw) ==
    IF sourceRangeOf(raw, raw.item.range) # <<>>
    THEN sourceRangeOf(raw, raw.item.range)[1]
    ELSE wholeDocument(documentsGetMap(raw.item.uri)[1].sourceDocument)

\* out is what the result shows of raw; allMapped: only an item whose range
\* has a source range is shown
shows(raw, out, allMapped) ==
    IF ~embedded(raw) THEN out = raw.item
    ELSE /\ sourceRangeOf(raw, raw.item.selectionRange) # <<>>
         /\ allMapped => sourceRangeOf(raw, raw.item.range) # <<>>
         /\ out.uri = documentsGetMap(raw.item.uri)[1].sourceDocument.uri
         /\ out.selectionRange = sourceRangeOf(raw, raw.item.selectionRange)[1]
         /\ out.range = rangeInSource(raw)

\* an auto-insert edit is returned with the source range of its range, and is
\* dropped when its range has none
autoInsertDrops ==
    op = "doAutoInsert" =>
        /\ (ret # <<>> /\ "range" \in DOMAIN ret[1]) =>
              /\ toSourceRange(theMap, arg.answer[1].range, "any") # <<>>
              /\ ret[1].range = toSourceRange(theMap, arg.answer[1].range, "any")[1]
        /\ (arg.answer # <<>> /\ "range" \in DOMAIN arg.answer[1]
                /\ toSourceRange(theMap, arg.answer[1].range, "any") = <<>>) =>
              ret = <<>>

\* C10 as stated: an item of an embedded document is in the result of
\* doPrepare / getIncomingCalls / getOutgoingCalls only if both its range and
\* its selectionRange have a source range, and an auto-insert edit only if its
\* range has one.
C10_DroppedUnlessAllMapped ==
    /\ op \in HierarchyOps =>
          \A j \in 1..Len(outItems) :
              \E i \in 1..Len(rawItems) : shows(rawItems[i], outItems[j], TRUE)
    /\ autoInsertDrops

\* C10, amended: an item of an embedded document is in the result only if its
\* selectionRange has a source range; it is then in the result (at its
\* location) whether or not its range has one, with the range of the whole
\* source document when it has none; the call-site ranges of the result are
\* source ranges or untransformed ranges of the calls; an auto-insert edit is
\* in the result only if its range has a source range.
C10_DroppedUnlessSelectionMapped ==
    /\ op \in HierarchyOps =>
          /\ \A j \in 1..Len(outItems) :
                \E i \in 1..Len(rawItems) : shows(rawItems[i], outItems[j], FALSE)
          /\ \A i \in 1..Len(rawItems) :
                (/\ embedded(rawItems[i])
                 /\ sourceRangeOf(rawItems[i], rawItems[i].item.selectionRange) # <<>>) =>
                    \E j \in 1..Len(outItems) :
                        /\ outItems[j].uri = sourceUri
                        /\ outItems[j].range = rangeInSource(rawItems[i])
    /\ op \in CallsOps =>
          \A j \in 1..Len(ret) : \A n \in 1..Len(ret[j].fromRanges) :
              \E i \in 1..Len(arg.calls) : \E k \in 1..Len(arg.calls[i].fromRanges) :
                  IF documentsGetMap(arg.calls[i].item.uri) # <<>>
                  THEN <<ret[j].fromRanges[n]>> =
                           toSourceRange(documentsGetMap(arg.calls[i].item.uri)[1],
                                         arg.calls[i].fromRanges[k], "any")
                  ELSE ret[j].fromRanges[n] = arg.calls[i].fromRanges[k]
    /\ autoInsertDrops

\* doPrepare returns an item with the range of the whole source document, for
\* a prepared item whose range has no source range, and gives up another item
C10_Witness ==
    /\ op = "doPrepare"
    /\ Len(ret) < Len(rawItems)
    /\ \E i \in 1..Len(rawItems) :
          /\ embedded(rawItems[i])
          /\ sourceRangeOf(rawItems[i], rawItems[i].item.range) = <<>>
          /\ \E j \in 1..Len(ret) :
                /\ ret[j].name = rawItems[i].item.name
                /\ ret[j].range = wholeDocument(
                                      documentsGetMap(rawItems[i].item.uri)[1].sourceDocument)

\* ==================================================================== C11
PositionOps ==
    {"toSourcePosition", "toGeneratedPosition", "toSourcePositions", "toGeneratedPositions"}

\* the side of the table an operation reads its input on
originOf(o) ==
    IF o \in {"toSourcePosition", "toSourcePositions", "toSourceRange", "toSourceRanges"}
    THEN "generatedRange" ELSE "sourceRange"

\* entry i satisfies the filter and its range on this side contains the offset
accepts(i, side, f, offset) ==
    /\ filter(f, mappings[i].data)
    /\ mappings[i][side][1] <= offset
    /\ offset <= mappings[i][side][2]

noEntryAccepts(side, f, offset) ==
    \A i \in 1..Len(mappings) : ~accepts(i, side, f, offset)

\* a position no entry accepts has no translation, and the pug hover of such a
\* position returns nothing without calling the HTML service
absentPositions ==
    /\ (op \in PositionOps /\ noEntryAccepts(originOf(op), arg.filter, arg.start))
           => ret = <<>>
    /\ (op = "pugHover" /\ noEntryAccepts("sourceRange", "capable", arg.start))
           => (ret.result = <<>> /\ ret.doHover = <<>>)

\* C11 as stated: for every table, filter, bias and position or range, when no
\* entry both contains the input on its origin side and satisfies the filter,
\* the singular operations return nothing and the plural ones an empty
\* sequence; the pug hover then returns nothing and never calls the HTML
\* service.  For a range, no accepted entry contains the range: both its ends.
C11_AbsentWhenNoEntryContains ==
    /\ absentPositions
    /\ (/\ op \in RangeOps
        /\ \A i \in 1..Len(mappings) :
              ~(/\ accepts(i, originOf(op), arg.filter, arg.start)
                /\ accepts(i, originOf(op), arg.filter, arg.end)))
           => ret = <<>>

\* C11, amended: the same for positions and for the pug hover; a range has no
\* translation when no accepted entry contains its start, or none contains its
\* end (a range whose ends lie in two different accepted entries is translated
\* by the cross-entry fallback).
C11_AbsentWhenUnmatched ==
    /\ absentPositions
    /\ (/\ op \in RangeOps
        /\ \/ noEntryAccepts(originOf(op), arg.filter, arg.start)
           \/ noEntryAccepts(originOf(op), arg.filter, arg.end))
           => ret = <<>>

\* the pug hover at a position that only an EmptyTagCompletion entry contains:
\* nothing is returned and the HTML service is not called
C11_Witness ==
    /\ op = "pugHover"
    /\ \E i \in 1..Len(mappings) :
          /\ ~mappings[i].data
          /\ accepts(i, "sourceRange", "any", arg.start)
    /\ noEntryAccepts("sourceRange", "capable", arg.start)
    /\ ret.result = <<>>
    /\ ret.doHover = <<>>

\* ==================================================================== C12
\* the entries that satisfy the filter and contain the offset on this side
accepting(side, f, offset) ==
    {i \in 1..Len(mappings) : accepts(i, side, f, offset)}

\* the results of a phase of toRanges, for the range query made
phaseOf(phase, api, api2, doc) ==
    SelectSeq(toRangesTagged(theMap, argRange(doc), arg.filter, api, api2),
              LAMBDA r : r.phase = phase)

\* the results of findTeleports one loop yielded
loopOf(loop) == SelectSeq(ret, LAMBDA r : r.loop = loop)

\* C12: for every table, with zero-length entries and several entries at the
\* same offset, the plural operations and findTeleports end: a position
\* sequence has one result per accepted entry containing the position and no
\* other (so at most one per entry; a zero-length entry at p yields a result
\* for p and for no other position), a range sequence has at most n same-entry
\* results and at most n*n fallback results for a table of n entries, and each
\* loop of findTeleports yields at most one result per entry.
C12_BoundedResults ==
    /\ op \in {"toSourcePositions", "toGeneratedPositions"} =>
          Len(ret) = Cardinality(accepting(originOf(op), arg.filter, arg.start))
    /\ op = "toSourceRanges" =>
          /\ Len(phaseOf("same", "toSourcePositionsBase", "matchSourcePosition",
                         mappedDocument)) <= Len(mappings)
          /\ Len(phaseOf("fallback", "toSourcePositionsBase", "matchSourcePosition",
                         mappedDocument)) <= Len(mappings) * Len(mappings)
          /\ Len(ret) <= Len(mappings) + Len(mappings) * Len(mappings)
    /\ op = "toGeneratedRanges" =>
          /\ Len(phaseOf("same", "toGeneratedPositionsBase", "matchGeneratedPosition",
                         sourceDocument)) <= Len(mappings)
          /\ Len(phaseOf("fallback", "toGeneratedPositionsBase", "matchGeneratedPosition",
                         sourceDocument)) <= Len(mappings) * Len(mappings)
          /\ Len(ret) <= Len(mappings) + Len(mappings) * Len(mappings)
    /\ op = "findTeleports" =>
          \A loop \in {"toGenerated", "toSource"} :
              /\ Len(loopOf(loop)) <= Len(mappings)
              /\ \A j, k \in 1..Len(loopOf(loop)) :
                    loopOf(loop)[j].entry = loopOf(loop)[k].entry => j = k

\* two zero-length entries at the same source offset, asked for that offset:
\* both answer
C12_Witness ==
    /\ op = "toGeneratedPositions"
    /\ Len(mappings) = 2
    /\ \A i \in 1..2 : mappings[i].sourceRange = <<arg.start, arg.start>>
    /\ Len(ret) = 2

\* ==================================================================== C13
\* the side of the table an operation translates to, and its document
destOf(o) == IF originOf(o) = "sourceRange" THEN "generatedRange" ELSE "sourceRange"

destDocOf(o) == IF originOf(o) = "sourceRange" THEN mappedDocument ELSE sourceDocument

\* the first entry, in table order, that satisfies the filter and contains the
\* offset on this side (0: none)
firstAccepting(side, f, offset) ==
    IF accepting(side, f, offset) = {} THEN 0
    ELSE CHOOSE i \in accepting(side, f, offset) :
             \A j \in accepting(side, f, offset) : i <= j

\* the position at dest.start + (pos - origin.start) through entry i
linearShift(o, i) ==
    positionAt(destDocOf(o),
               mappings[i][destOf(o)][1] + (arg.start - mappings[i][originOf(o)][1]))

\* the singular operation returns the first element of the plural one
firstOfPlural ==
    /\ op = "toSourcePosition" =>
          ret = first(toSourcePositions(theMap, argPosition(mappedDocument),
                                        arg.filter, arg.baseOffset))
    /\ op = "toGeneratedPosition" =>
          ret = first(toGeneratedPositions(theMap, argPosition(sourceDocument),
                                           arg.filter, arg.baseOffset))

\* C13: toSourcePosition / toGeneratedPosition return the translation through
\* the first entry in table order that contains the position on its origin
\* side and satisfies the filter (entries the filter rejects are skipped and
\* the scan goes on); the result is the first element of toSourcePositions /
\* toGeneratedPositions for the same arguments, and the translated offset is
\* dest.start + (pos - origin.start), for either bias.
C13_FirstAcceptedEntry ==
    /\ firstOfPlural
    /\ op \in {"toSourcePosition", "toGeneratedPosition"} =>
          LET i == firstAccepting(originOf(op), arg.filter, arg.start)
          IN  ret = IF i = 0 THEN <<>> ELSE <<linearShift(op, i)>>

\* the same, where the bias is left or the two ranges of the first accepted
\* entry have the same length
C13_FirstAcceptedEntryLeft ==
    /\ firstOfPlural
    /\ op \in {"toSourcePosition", "toGeneratedPosition"} =>
          LET i == firstAccepting(originOf(op), arg.filter, arg.start)
          IN  \/ i = 0 /\ ret = <<>>
              \/ /\ i # 0
                 /\ \/ arg.baseOffset = "right" /\ ~SameLength(mappings[i])
                    \/ ret = <<linearShift(op, i)>>

\* ==================================================================== C14
\* the tagged results of the range query made, and the document it is made in
taggedOf(o) ==
    IF originOf(o) = "generatedRange"
    THEN toRangesTagged(theMap, argRange(mappedDocument), arg.filter,
                        "toSourcePositionsBase", "matchSourcePosition")
    ELSE toRangesTagged(theMap, argRange(sourceDocument), arg.filter,
                        "toGeneratedPositionsBase", "matchGeneratedPosition")

\* entry i contains the offset on this side (whatever its data)
contains(i, side, offset) ==
    mappings[i][side][1] <= offset /\ offset <= mappings[i][side][2]

\* entry i is accepted and covers both ends of the range asked for
covers(i, o) ==
    /\ accepts(i, originOf(o), arg.filter, arg.start)
    /\ contains(i, originOf(o), arg.end)

\* the range both ends of which are translated through entry i
throughOne(i, o) ==
    [start |-> positionAt(destDocOf(o),
                   mappings[i][destOf(o)][1] + (arg.start - mappings[i][originOf(o)][1])),
     end |-> positionAt(destDocOf(o),
                 mappings[i][destOf(o)][1] + (arg.end - mappings[i][originOf(o)][1]))]

\* C14: in the sequence of toSourceRanges / toGeneratedRanges every same-entry
\* result (start matched in accepted entry E, end resolved inside E) comes
\* before every cross-entry fallback result, and a fallback result starts only
\* from a start match whose own entry does not resolve the end; hence
\* toSourceRange / toGeneratedRange return a same-entry range whenever an
\* accepted entry covers both ends.
C14_SameEntryFirst ==
    /\ op \in {"toSourceRanges", "toGeneratedRanges"} =>
          LET t == taggedOf(op)
          IN  /\ ret = [i \in 1..Len(t) |-> [start |-> t[i].start, end |-> t[i].end]]
              /\ \A j, k \in 1..Len(t) :
                    (t[j].phase = "same" /\ t[k].phase = "fallback") => j < k
              /\ \A j \in 1..Len(t) :
                    /\ accepts(t[j].entry, originOf(op), arg.filter, arg.start)
                    /\ (t[j].phase = "same") <=> covers(t[j].entry, op)
                    /\ (t[j].phase = "same") =>
                          [start |-> t[j].start, end |-> t[j].end] = throughOne(t[j].entry, op)
    /\ (/\ op \in {"toSourceRange", "toGeneratedRange"}
        /\ \E i \in 1..Len(mappings) : covers(i, op))
           => \E i \in 1..Len(mappings) : covers(i, op) /\ ret = <<throughOne(i, op)>>

\* a range query answered by a same-entry result and then a fallback result
C14_Witness ==
    /\ op \in {"toSourceRanges", "toGeneratedRanges"}
    /\ \E j, k \in 1..Len(taggedOf(op)) :
          /\ taggedOf(op)[j].phase = "same"
          /\ taggedOf(op)[k].phase = "fallback"
    /\ Len(ret) >= 2

\* ==================================================================== C15
\* the call the plugin answered i-th is of no virtual file
plainCall(i) == documentsGetMap(arg.calls[i].item.uri) = <<>>

\* the calls the plugin answered for the same item
sameItemCalls(i) == {k \in 1..Len(arg.calls) : arg.calls[k].item = arg.calls[i].item}

\* the item a plugin prepared, with the data doPrepare attaches to it when the
\* document was asked about directly
preparedDirectly(p, item) ==
    [item EXCEPT !.data = <<[uri |-> arg.uri, originalItem |-> item,
                             pluginId |-> p - 1, map |-> <<>>]>>]

\* C15: an item whose uri belongs to no virtual file (the registry's getMap
\* returns nothing) goes through transformCallHierarchyItem unchanged, with its
\* call-site ranges: getIncomingCalls / getOutgoingCalls return it with the
\* same uri, range, selectionRange and name, and with the same ranges list when
\* it is the only call of that item; and doPrepare returns the items the
\* plugins prepared untransformed when the document has no source map.
C15_PassThrough ==
    /\ (op \in CallsOps /\ pluginAsked(arg.data)) =>
          \A i \in 1..Len(arg.calls) :
              plainCall(i) =>
                  /\ transformCallHierarchyItem(arg.calls[i].item, arg.calls[i].fromRanges)
                         = <<(<<arg.calls[i].item, arg.calls[i].fromRanges>>)>>
                  /\ \E j \in 1..Len(ret) :
                        /\ itemOf(ret[j]) = arg.calls[i].item
                        /\ \A k \in 1..Len(arg.calls[i].fromRanges) :
                              \E n \in 1..Len(ret[j].fromRanges) :
                                  ret[j].fromRanges[n] = arg.calls[i].fromRanges[k]
                        /\ sameItemCalls(i) = {i} =>
                              ret[j].fromRanges = arg.calls[i].fromRanges
    /\ (op = "doPrepare" /\ mapperGet(getPathOfUri(arg.uri)) = <<>>) =>
          /\ \A j \in 1..Len(ret) :
                \E p \in 1..Len(arg.answers) : \E i \in 1..Len(arg.answers[p]) :
                    ret[j] = preparedDirectly(p, arg.answers[p][i])
          /\ \A p \in 1..Len(arg.answers) : \A i \in 1..Len(arg.answers[p]) :
                \E j \in 1..Len(ret) :
                    locationKey(ret[j]) = locationKey(arg.answers[p][i])

\* getIncomingCalls returns a caller of no virtual file as the plugin answered
\* it, with a call site no table maps, next to a caller it transformed
C15_Witness ==
    /\ op = "getIncomingCalls"
    /\ pluginAsked(arg.data)
    /\ Len(arg.calls) = 2
    /\ plainCall(1) /\ ~plainCall(2)
    /\ arg.calls[1].fromRanges = <<lineRange(<<3, 3>>)>>
    /\ Len(ret) = 2
    /\ ret[1] = [from |-> arg.calls[1].item, fromRanges |-> arg.calls[1].fromRanges]
    /\ ret[2].from.uri = sourceUri

\* ==================================================================== C16
\* the item handed in names no plugin that can be asked: it carries no data,
\* its pluginId is that of no plugin, or the plugin has no callHierarchy
noOwner(data) ==
    IF data = <<>> THEN TRUE
    ELSE IF data[1].pluginId >= Len(Plugins) THEN TRUE
    ELSE ~Plugins[data[1].pluginId + 1].callHierarchy

\* the item recorded an embedded document the registry has no map for
staleMap(data) ==
    IF data = <<>> THEN FALSE
    ELSE IF data[1].map = <<>> THEN FALSE
    ELSE documentsGetMap(data[1].map[1].embeddedDocumentUri) = <<>>

\* C16: one getIncomingCalls / getOutgoingCalls calls the owning plugin's
\* onIncomingCalls / onOutgoingCalls at most once; it calls no plugin and
\* returns an empty list when the item carries no data, when data.pluginId is
\* that of no plugin, when the plugin has no callHierarchy, or when the item
\* recorded an embedded document the registry returns no map for; otherwise
\* it calls the owning plugin once; and a plugin that answers an empty list
\* makes the result empty.
C16_AtMostOneCall ==
    op \in CallsOps =>
        /\ Len(asked) <= 1
        /\ (noOwner(arg.data) \/ staleMap(arg.data)) => (asked = <<>> /\ ret = <<>>)
        /\ ~(noOwner(arg.data) \/ staleMap(arg.data)) =>
              asked = <<[pluginId |-> arg.data[1].pluginId,
                         method |-> IF op = "getIncomingCalls"
                                    THEN "onIncomingCalls" ELSE "onOutgoingCalls"]>>
        /\ arg.calls = <<>> => ret = <<>>

\* an item whose recorded embedded document the registry has no map for, of a
\* plugin that would answer a call: the plugin is not asked
C16_Witness ==
    /\ op = "getOutgoingCalls"
    /\ ~noOwner(arg.data)
    /\ staleMap(arg.data)
    /\ arg.calls # <<>>
    /\ asked = <<>>
    /\ ret = <<>>

\* ==================================================================== C17
\* the files of a list of maps or teleports, in order: the keys of the Map
filesOf(ms) == [i \in 1..Len(ms) |-> ms[i].file]

\* the bundle is that of the tree of rootFile: its file is rootFile, its maps
\* are keyed by the nodes of the tree in pre-order, one map per node, and its
\* teleports by the nodes that have teleport mappings
reflects(bundle, rootFile) ==
    /\ bundle.file = rootFile
    /\ filesOf(bundle.maps) = forEachEmbeddeds(rootFile)
    /\ filesOf(bundle.teleports)
           = SelectSeq(forEachEmbeddeds(rootFile), LAMBDA f : f.teleportMappings # <<>>)

\* C17 as stated: the bundle get returns for a source is that of the tree the
\* embedding provider reports at the time of the call, even when the provider
\* reports another root file for an unchanged snapshot object.
C17_ReflectsCurrentTree ==
    (op = "get" /\ ret # <<>>) =>
        reflects(ret[1], mapper[ret[1].fileName][1].rootFile)

\* C17, amended: the bundle get returns for a source is that of the tree the
\* embedding provider reported when the bundle of the current snapshot object
\* was built: a get that finds no bundle cached for the snapshot builds the
\* bundle of the tree reported at that call (root file, one SourceMap per node
\* in pre-order, a TeleportMap exactly for the nodes with teleport mappings);
\* a get that finds one returns it as it is, whatever root file the provider
\* now reports.
C17_ReflectsTreeAtBuild ==
    [][(op' = "get" /\ ret' # <<>>) =>
          /\ ret'[1].snapshot = mapper[ret'[1].fileName][1].snapshot
          /\ reflects(ret'[1], ret'[1].file)
          /\ IF ret'[1].snapshot \in DOMAIN snapshotsToMaps
             THEN ret'[1] = snapshotsToMaps[ret'[1].snapshot]
             ELSE reflects(ret'[1], mapper[ret'[1].fileName][1].rootFile)]_vars

\* get returns the bundle of the tree the provider reported first, with its
\* embedded file, after the provider reported another root file for the same
\* snapshot
C17_Witness ==
    /\ op = "get"
    /\ ret # <<>>
    /\ ret[1].snapshot = mapper[ret[1].fileName][1].snapshot
    /\ ret[1].file # mapper[ret[1].fileName][1].rootFile
    /\ Len(ret[1].maps) >= 2

\* ==================================================================== C18
\* the script of the file is tracked and the file has no open document
tracked(f) == f \notin project.documents /\ project.scripts[f] # <<>>

\* the events of the notification that name the file
eventsOf(changes, f) == {i \in 1..Len(changes) : changes[i].uri = f}

\* a tracked script has the version of its snapshot exactly when no Changed or
\* Created event reached it since the snapshot was read
cachedIffNoEvent ==
    \A f \in ProjectFiles :
        tracked(f) =>
            (project.scripts[f][1].snapshotVersion = project.scripts[f][1].version
                 <=> ~history[f].eventSinceRead)

\* getScriptSnapshot of a tracked script returns the cached snapshot, leaving
\* the project as it is, when no Changed or Created event reached the script
\* since the snapshot was read; after such an event it does not return the
\* cached snapshot: it returns nothing, or a snapshot object it creates, which
\* it keeps in the entry unless the file is larger than maxFileSize
rereadAfterEvent ==
    (op' = "getScriptSnapshot" /\ tracked(arg'.fileName)) =>
        IF ~history[arg'.fileName].eventSinceRead
        THEN /\ ret' = <<project.scripts[arg'.fileName][1].snapshot>>
             /\ project' = project
        ELSE \/ ret' = <<>> /\ project' = project
             \/ /\ ret' = <<fromString(project.allocated + 1, "")>>
                /\ project'.scripts = project.scripts
             \/ /\ ret' = <<fromString(project.allocated + 1,
                                       project.files[arg'.fileName][1])>>
                /\ project'.scripts[arg'.fileName][1].snapshot = ret'[1]
                /\ project'.scripts[arg'.fileName][1].snapshotVersion
                       = project.scripts[arg'.fileName][1].version

\* a notification with an event of a tracked script makes projectVersion
\* larger; a Deleted event among them removes the entry; otherwise the entry
\* stays, with a version that is not the version of its snapshot
eventsOfTracked(f) ==
    (/\ op' = "onWorkspaceFilesChanged"
     /\ tracked(f)
     /\ eventsOf(arg'.changes, f) # {}) =>
        /\ project'.projectVersion > project.projectVersion
        /\ IF \E i \in eventsOf(arg'.changes, f) : arg'.changes[i].type = "Deleted"
           THEN project'.scripts[f] = <<>>
           ELSE /\ project'.scripts[f] # <<>>
                /\ project'.scripts[f][1].version
                       # project'.scripts[f][1].snapshotVersion

\* f is tracked and the notification has Changed or Created events of it and
\* no Deleted one
touched(f) ==
    /\ op' = "onWorkspaceFilesChanged"
    /\ tracked(f)
    /\ eventsOf(arg'.changes, f) # {}
    /\ \A i \in eventsOf(arg'.changes, f) : arg'.changes[i].type # "Deleted"

\* C18: for a tracked script without an open document, after any sequence of
\* watched-file events and getScriptSnapshot calls: getScriptSnapshot returns
\* the cached snapshot only if no Changed or Created event of the script came
\* since the snapshot was read (snapshotVersion equals version exactly then);
\* after such an event the version of the script differs from every version
\* the script has had before, the next getScriptSnapshot reads the file again
\* instead of returning the cached snapshot, a Deleted event removes the
\* entry, and each event of a tracked script makes projectVersion larger.
C18_VersionNeverSeenBefore ==
    /\ []cachedIffNoEvent
    /\ [][/\ rereadAfterEvent
          /\ \A f \in ProjectFiles :
                /\ eventsOfTracked(f)
                /\ touched(f) =>
                      project'.scripts[f][1].version \notin history[f].versions]_vars

\* the same, the version of the script after the event being smaller than the
\* version the entry had before it (an entry made after a Deleted event starts
\* at -1 again)
C18_VersionOfEntryDecreases ==
    /\ []cachedIffNoEvent
    /\ [][/\ rereadAfterEvent
          /\ \A f \in ProjectFiles :
                /\ eventsOfTracked(f)
                /\ touched(f) =>
                      project'.scripts[f][1].version < project.scripts[f][1].version]_vars

====
